---- MODULE Spec2Model ----
(***************************************************************************)
(* A model of the urandom crate: the block-buffering adapter               *)
(* (rng/block.rs), the default byte filler (rng/util.rs), the uniform      *)
(* integer sampler (distr/uniform/int.rs), the unit-interval float sampler *)
(* (distr/float01.rs), Bernoulli (distr/bernoulli.rs) and the ChaCha block *)
(* function (rng/chacha/slp.rs, rng/chacha/inner.rs).                      *)
(*                                                                         *)
(* TLC integers are 32-bit signed, so a u32 is kept as two 16-bit limbs    *)
(* <<hi, lo>> and a u64 as four limbs wherever the full width matters.     *)
(***************************************************************************)
EXTENDS Integers, Sequences, FiniteSets, TLC

VARIABLES
    bigEndian,  \* target byte order of the build (cfg target_endian)
    kind,       \* which generator the harness drives: "block" or "mix"
    master,     \* the generator under test (tests.rs: master)
    rand,       \* the clone of master that filled buf (tests.rs: rand)
    i,          \* loop variable of check_fill_bytes; 0 before the loop
    buf,        \* destination buffer of the current iteration
    old,        \* destination buffer of the previous iteration
    value,      \* the word returned by the last next_u32 / next_u64
    calls,      \* calls made on master before the check loop
    ty,         \* the integer type UniformInt is instantiated for
    low,        \* bounds handed to the constructor
    high,
    inclusive,  \* TRUE for try_new_inclusive, FALSE for try_new
    distr,      \* the constructed UniformInt, or the EmptyRange error
    zone,       \* sample: the local `zone`
    raw,        \* sample: the raw word of the last draw
    sampled,    \* sample: the value returned, if any
    upc,        \* "new", "ready", "loop" (inside sample), "done", "err"
    draws,      \* raw words drawn by the current sample call
    fmt,        \* Float01: the float type sampled (f32 or f64)
    coin,       \* Float01: the first draw, rand.next_u64()
    seed,       \* Float01: the raw word behind next_f32() / next_f64()
    float,      \* Float01: the bits of the value returned
    fpc,        \* "new" until a float has been sampled, then "sampled"
    p,          \* Bernoulli: the probability, an f64
    outcome,    \* Bernoulli: the value sample returned
    bpc,        \* "new", "built" (Bernoulli::new done), "sampled"
    rounds,         \* ChaCha: the round count N
    overflowChecks, \* ChaCha: whether the build checks integer overflow
    core,           \* ChaCha: the ChaChaCore (seed, counter, stream)
    prev,           \* ChaCha: the core as the last block call found it
    ws,             \* ChaCha: the four blocks the last call wrote
    cpc,            \* "new", "built", "done", or "panicked"
    gens,           \* ChaCha: block calls made
    sa,         \* ChaCha<N> generator: the instance (after a split, the clone)
    sb,         \* ChaCha<N> generator: after a split, the instance that jumped
    isSplit,    \* whether Random::split has been called
    usedA,      \* cipher inputs sa generated blocks from since the split
    usedB,      \* cipher inputs sb generated blocks from since the split
    sout,       \* what the last call returned or wrote
    jumped,     \* the instance before and after its last jump
    sops,       \* calls made so far
    xseed,      \* Xoshiro256: the seed given to from_seed
    xs,         \* Xoshiro256: the state [u64; 4]
    xout,       \* Xoshiro256: the value the last call returned
    xkind,      \* Xoshiro256: the last call made
    xn,         \* Xoshiro256: calls made so far
    dcall,      \* Exp / Normal: the constructor called
    dparam,     \* Exp / Normal: the rate or the standard deviation given
    dmean,      \* Normal: the mean given
    dres,       \* Exp / Normal: what the constructor returned
    c20,        \* ChaCha20: the instance
    c20out,     \* ChaCha20: the value returned or the buffer as left
    c20panic,   \* ChaCha20: whether the last call panicked
    c20call,    \* ChaCha20: the last call and its buffer length
    c20n,       \* ChaCha20: calls made so far
    stg,        \* single: the usize instantiation of the target
    sitems,     \* single: the number of items of the collection
    shint,      \* single: whether size_hint gives the exact length
    spc,        \* single: where the call is
    szone,      \* single: `zone` of the loop of index()
    sraw,       \* single: the raw word last drawn by index()
    sindex,     \* single: the index passed to nth
    spos,       \* single: items the reservoir loop has taken
    sresult,    \* single: the result held or returned
    sdraws,     \* single: raw words index() has drawn
    cbe,        \* BlockRngImpl: whether the build is big-endian
    crng,       \* BlockRngImpl: the instance
    cmode,      \* BlockRngImpl: the calls the run consists of
    cn,         \* BlockRngImpl: calls made so far
    clast,      \* BlockRngImpl: the last call, its value and its reads
    cwords,     \* BlockRngImpl: calls since construction or the last jump
    cstart,     \* BlockRngImpl: the generator state at construction or jump
    cseen,      \* BlockRngImpl: the bytes handed out before the last call
    udivs,      \* sample: divisions executed in the current call
    utotal,     \* sample: divisions executed on the UniformInt
    ucalls,     \* sample: calls begun on the UniformInt
    ulast,      \* sample: the last pass, whether it divided and its low half
    wfile,      \* impl_uniform_int: the source file of the sampler
    wptr,       \* impl_uniform_int: target_pointer_width
    wimpl,      \* impl_uniform_int: the instantiation sampled from
    wpc,        \* impl_uniform_int: position of the sample call
    wpasses,    \* impl_uniform_int: passes of the loop made
    wbits,      \* impl_uniform_int: bits drawn from the generator
    wfull,      \* impl_uniform_int: bits of the last wide product
    rquery,     \* thresholds: the function called and its argument
    rres,       \* thresholds: the value returned
    rdone,      \* thresholds: whether the call has returned
    mseed,      \* SplitMix64: the seed
    mstate,     \* SplitMix64: the state word
    mnexts,     \* SplitMix64: calls of next_u32 / next_u64 made
    mjumps,     \* SplitMix64: jumps made
    mlast,      \* SplitMix64: the last call
    zsym,       \* ziggurat: the `symmetric` argument (StandardNormal) or not (Exp1)
    zpc,        \* ziggurat: position in the sample call
    zbits,      \* ziggurat: the word of the current attempt, rand.next_u64()
    zi,         \* ziggurat: the layer index i
    zmant,      \* ziggurat: the mantissa field of u, bits >> 12
    zlog,       \* ziggurat: the draws and tests of the current attempt, in order
    zattempts,  \* ziggurat: passes through the top of the `loop`
    ztail,      \* ziggurat: passes through the loop of zero_case
    zret        \* ziggurat: which `return` ended the call

blockVars == <<bigEndian, kind, master, rand, i, buf, old, value, calls>>

uniformVars == <<ty, low, high, inclusive, distr, zone, raw, sampled, upc, draws>>

floatVars == <<fmt, coin, seed, float, fpc, p, outcome, bpc>>

chachaVars == <<rounds, overflowChecks, core, prev, ws, cpc, gens>>

streamVars == <<sa, sb, isSplit, usedA, usedB, sout, jumped, sops>>

xoshiroVars == <<xseed, xs, xout, xkind, xn>>

distrVars == <<dcall, dparam, dmean, dres>>

chacha20Vars == <<c20, c20out, c20panic, c20call, c20n>>

singleVars == <<stg, sitems, shint, spc, szone, sraw, sindex, spos, sresult, sdraws>>

cursorVars == <<cbe, crng, cmode, cn, clast, cwords, cstart, cseen>>

lazyVars == <<udivs, utotal, ucalls, ulast>>

widthVars == <<wfile, wptr, wimpl, wpc, wpasses, wbits, wfull>>

rejectVars == <<rquery, rres, rdone>>

splitMixVars == <<mseed, mstate, mnexts, mjumps, mlast>>

zigguratVars == <<zsym, zpc, zbits, zi, zmant, zlog, zattempts, ztail, zret>>

vars == <<blockVars, uniformVars, floatVars, chachaVars, streamVars, xoshiroVars, distrVars, chacha20Vars, singleVars, cursorVars, lazyVars, widthVars, rejectVars, splitMixVars, zigguratVars>>

notBlock == <<uniformVars, floatVars, chachaVars, streamVars, xoshiroVars, distrVars, chacha20Vars, singleVars, cursorVars, lazyVars, widthVars, rejectVars, splitMixVars, zigguratVars>>

notUniform == <<blockVars, floatVars, chachaVars, streamVars, xoshiroVars, distrVars, chacha20Vars, singleVars, cursorVars, lazyVars, widthVars, rejectVars, splitMixVars, zigguratVars>>

notFloat == <<blockVars, uniformVars, chachaVars, streamVars, xoshiroVars, distrVars, chacha20Vars, singleVars, cursorVars, lazyVars, widthVars, rejectVars, splitMixVars, zigguratVars>>

notChaCha == <<blockVars, uniformVars, floatVars, streamVars, xoshiroVars, distrVars, chacha20Vars, singleVars, cursorVars, lazyVars, widthVars, rejectVars, splitMixVars, zigguratVars>>

notStream == <<blockVars, uniformVars, floatVars, chachaVars, xoshiroVars, distrVars, chacha20Vars, singleVars, cursorVars, lazyVars, widthVars, rejectVars, splitMixVars, zigguratVars>>

notXoshiro == <<blockVars, uniformVars, floatVars, chachaVars, streamVars, distrVars, chacha20Vars, singleVars, cursorVars, lazyVars, widthVars, rejectVars, splitMixVars, zigguratVars>>

notDistr == <<blockVars, uniformVars, floatVars, chachaVars, streamVars, xoshiroVars, chacha20Vars, singleVars, cursorVars, lazyVars, widthVars, rejectVars, splitMixVars, zigguratVars>>

notChaCha20 == <<blockVars, uniformVars, floatVars, chachaVars, streamVars, xoshiroVars, distrVars, singleVars, cursorVars, lazyVars, widthVars, rejectVars, splitMixVars, zigguratVars>>

notSingle == <<blockVars, uniformVars, floatVars, chachaVars, streamVars, xoshiroVars, distrVars, chacha20Vars, cursorVars, lazyVars, widthVars, rejectVars, splitMixVars, zigguratVars>>

notCursor == <<blockVars, uniformVars, floatVars, chachaVars, streamVars, xoshiroVars, distrVars, chacha20Vars, singleVars, lazyVars, widthVars, rejectVars, splitMixVars, zigguratVars>>

notUniformLazy == <<blockVars, floatVars, chachaVars, streamVars, xoshiroVars, distrVars, chacha20Vars, singleVars, cursorVars, widthVars, rejectVars, splitMixVars, zigguratVars>>

notWidth == <<blockVars, uniformVars, floatVars, chachaVars, streamVars, xoshiroVars, distrVars, chacha20Vars, singleVars, cursorVars, lazyVars, rejectVars, splitMixVars, zigguratVars>>

notReject == <<blockVars, uniformVars, floatVars, chachaVars, streamVars, xoshiroVars, distrVars, chacha20Vars, singleVars, cursorVars, lazyVars, widthVars, splitMixVars, zigguratVars>>

notSplitMix == <<blockVars, uniformVars, floatVars, chachaVars, streamVars, xoshiroVars, distrVars, chacha20Vars, singleVars, cursorVars, lazyVars, widthVars, rejectVars, zigguratVars>>

notZiggurat == <<blockVars, uniformVars, floatVars, chachaVars, streamVars, xoshiroVars, distrVars, chacha20Vars, singleVars, cursorVars, lazyVars, widthVars, rejectVars, splitMixVars>>

----------------------------------------------------------------------------
(* Bounds of the model.                                                    *)

\* calls made on the master generator before the check loop starts
MaxCalls == 1
\* the master fills destinations of 1..MaxFill bytes and of a block more or
\* less up to MaxFill bytes
MaxFill == 2
\* width in bits of the narrow integer type the sampler is instantiated for
TyBits == 3
\* width in bits of the raw word ($large) the sampler draws
LargeBits == 4
\* raw words one sample call may draw
MaxDraws == 3

\* block calls on one ChaChaCore
MaxGenerate == 2

\* width in bits of one state word of the ChaCha<N> generator
StreamWordBits == 1
\* calls on the ChaCha<N> generator before and after a split
MaxStreamOps == 3

\* calls on one Xoshiro256 instance
MaxXoshiroCalls == 3

\* calls on one ChaCha20 instance
MaxChaCha20Calls == 3

\* items in the collection given to Random::single
MaxItems == 3

\* calls in a run of next_u32 alone or next_u64 alone on a BlockRngImpl
MaxWordCalls == 66
\* calls in a run of any calls on a BlockRngImpl
MaxCursorCalls == 3

\* sample calls on one UniformInt
MaxSampleCalls == 2

\* largest range whose threshold is computed
MaxRejectRange == 70

\* calls of next_u32 / next_u64 on a SplitMix64
MaxSplitMixCalls == 3
\* jumps of a SplitMix64
MaxSplitMixJumps == 2

\* calls on a Xoshiro256 among all its methods
MaxXoshiroOps == 2

\* attempts of one ziggurat call, and passes of the loop of zero_case
MaxZigAttempts == 2
MaxTailLoops == 2

----------------------------------------------------------------------------
(* Machine integers.                                                       *)

Limb == 2 ^ 16

Min(a, b) == IF a < b THEN a ELSE b

\* a u32 from a natural number below 2^31
U32(n) == <<n \div Limb, n % Limb>>

\* `!0` for u32
NOT0 == <<Limb - 1, Limb - 1>>

\* `a as usize > n` for a u32 a and a small n
U32Gt(a, n) == a[1] > 0 \/ a[2] > n

\* `usize::min(a as usize, n)` for a u32 a and a small n
U32MinUsize(a, n) == IF U32Gt(a, n) THEN n ELSE a[2]

\* `a += n as u32` (wrapping) for a u32 a and a small n
U32Add(a, n) ==
    LET lo == a[2] + n
    IN  <<(a[1] + (lo \div Limb)) % Limb, lo % Limb>>

----------------------------------------------------------------------------
(* The core behind the adapter.  No implementor of BlockRng is part of the *)
(* sources; the core is the one the design describes: generate turns the   *)
(* core state into one output block and advances the counter, jump         *)
(* advances the stream.  A block is named by a positive number that is     *)
(* different for every (stream, counter); 0 names the default block.       *)

\* size_of::<T::Output>() for the 4x16-word block
BlockBytes == 256

BlockId(state) == state.stream * (2 * BlockBytes) + state.counter + 1

generate(state) ==
    [state |-> [state EXCEPT !.counter = @ + 1], random |-> BlockId(state)]

core_jump(state) == [state EXCEPT !.stream = @ + 1]

\* Byte `k` (0 = least significant byte of word 0) of the little-endian
\* packing of block `id`; the default block is all zero.
LeByte(id, k) == IF id = 0 THEN 0 ELSE id * BlockBytes + k

\* The byte the build stores at memory offset m of a block of u32 words.
MemByte(be, id, m) ==
    LeByte(id, IF be THEN 4 * (m \div 4) + (3 - (m % 4)) ELSE m)

\* bytes(&value): the raw in-memory bytes of the block, offsets 0..255
bytes(be, id) == [m \in 0 .. BlockBytes - 1 |-> MemByte(be, id, m)]

----------------------------------------------------------------------------
(* BlockRngImpl                                                            *)

new(state) == [state |-> state, index |-> NOT0, random |-> 0]

\* ptr::copy_nonoverlapping(src + s, dst + d, len); dst is 1-based
copy_nonoverlapping(src, s, dst, d, len) ==
    [k \in 1 .. Len(dst) |->
        IF k - 1 >= d /\ k - 1 < d + len THEN src[s + (k - 1 - d)] ELSE dst[k]]

\* next_u32 refilling where next_u64 does
next_u32_early(be, rng) ==
    LET refill == U32Gt(rng.index, BlockBytes - 8)
        gen    == generate(rng.state)
        state1 == IF refill THEN gen.state ELSE rng.state
        block  == IF refill THEN gen.random ELSE rng.random
        index  == IF refill THEN 0 ELSE rng.index[2]
        random == bytes(be, block)
    IN  [rng   |-> [state |-> state1, index |-> U32(index + 4), random |-> block],
         value |-> <<random[index], random[index + 1],
                     random[index + 2], random[index + 3]>>]

next_u32(be, rng) ==
    LET refill == U32Gt(rng.index, BlockBytes - 4)
        gen    == generate(rng.state)
        state1 == IF refill THEN gen.state ELSE rng.state
        block  == IF refill THEN gen.random ELSE rng.random
        index  == IF refill THEN 0 ELSE rng.index[2]
        random == bytes(be, block)
    IN  [rng   |-> [state |-> state1, index |-> U32(index + 4), random |-> block],
         value |-> <<random[index], random[index + 1],
                     random[index + 2], random[index + 3]>>]

\* next_u64 advancing the stored index in place of the local one
next_u64_stale_index(be, rng) ==
    LET refill == U32Gt(rng.index, BlockBytes - 8)
        gen    == generate(rng.state)
        state1 == IF refill THEN gen.state ELSE rng.state
        block  == IF refill THEN gen.random ELSE rng.random
        index  == IF refill THEN 0 ELSE rng.index[2]
        random == bytes(be, block)
    IN  [rng   |-> [state |-> state1, index |-> U32Add(rng.index, 8), random |-> block],
         value |-> <<random[index], random[index + 1],
                     random[index + 2], random[index + 3],
                     random[index + 4], random[index + 5],
                     random[index + 6], random[index + 7]>>]

next_u64(be, rng) ==
    LET refill == U32Gt(rng.index, BlockBytes - 8)
        gen    == generate(rng.state)
        state1 == IF refill THEN gen.state ELSE rng.state
        block  == IF refill THEN gen.random ELSE rng.random
        index  == IF refill THEN 0 ELSE rng.index[2]
        random == bytes(be, block)
    IN  [rng   |-> [state |-> state1, index |-> U32(index + 8), random |-> block],
         value |-> <<random[index], random[index + 1],
                     random[index + 2], random[index + 3],
                     random[index + 4], random[index + 5],
                     random[index + 6], random[index + 7]>>]

\* fill_direct with the full-block test off by one
RECURSIVE fill_direct_early(_, _, _, _, _)
fill_direct_early(be, state, dst, pos, n) ==
    IF n - pos >= BlockBytes - 1
    THEN LET gen == generate(state)
             tmp == bytes(be, gen.random)
         IN  fill_direct_early(be, gen.state,
                 copy_nonoverlapping(tmp, 0, dst, pos, Min(BlockBytes, n - pos)),
                 pos + BlockBytes, n)
    ELSE [state |-> state, dst |-> dst, pos |-> pos]

\* the `while buf.len() >= size_of_val(&tmp)` loop; buf is dst[pos..n]
RECURSIVE fill_direct(_, _, _, _, _)
fill_direct(be, state, dst, pos, n) ==
    IF n - pos >= BlockBytes
    THEN LET gen == generate(state)
             tmp == bytes(be, gen.random)
         IN  fill_direct(be, gen.state,
                         copy_nonoverlapping(tmp, 0, dst, pos, BlockBytes),
                         pos + BlockBytes, n)
    ELSE [state |-> state, dst |-> dst, pos |-> pos]

\* fill_rest copying the whole buffered remainder whatever buf.len() is
RECURSIVE fill_rest_overrun(_, _, _, _, _)
fill_rest_overrun(be, rng, dst, pos, n) ==
    LET random == bytes(be, rng.random)
        start  == U32MinUsize(rng.index, BlockBytes)
        len    == BlockBytes - start
        dst1   == copy_nonoverlapping(random, start, dst, pos, len)
    IN  IF n - (pos + len) > 0
        THEN LET gen == generate(rng.state)
             IN  fill_rest_overrun(be, [state |-> gen.state, index |-> U32(0),
                                        random |-> gen.random],
                                   dst1, pos + len, n)
        ELSE [rng |-> [rng EXCEPT !.index = U32Add(@, len)], dst |-> dst1]

\* the `loop` that serves the remainder from the buffered block
RECURSIVE fill_rest(_, _, _, _, _)
fill_rest(be, rng, dst, pos, n) ==
    LET random == bytes(be, rng.random)
        start  == U32MinUsize(rng.index, BlockBytes)
        len    == Min(BlockBytes - start, n - pos)
        dst1   == copy_nonoverlapping(random, start, dst, pos, len)
    IN  IF n - (pos + len) > 0
        THEN LET gen == generate(rng.state)
             IN  fill_rest(be, [state |-> gen.state, index |-> U32(0),
                                random |-> gen.random],
                           dst1, pos + len, n)
        ELSE [rng |-> [rng EXCEPT !.index = U32Add(@, len)], dst |-> dst1]

\* fill_bytes serving every byte through the buffered block
fill_bytes_via_buffer(be, rng, dst, n) ==
    IF n > 0 THEN fill_rest(be, rng, dst, 0, n) ELSE [rng |-> rng, dst |-> dst]

\* fill_bytes(&mut dst[..n])
fill_bytes(be, rng, dst, n) ==
    LET d == fill_direct(be, rng.state, dst, 0, n)
        r == [rng EXCEPT !.state = d.state]
    IN  IF n - d.pos > 0
        THEN fill_rest(be, r, d.dst, d.pos, n)
        ELSE [rng |-> r, dst |-> d.dst]

\* jump leaving the cursor where it is
jump_keeps_index(rng) == [rng EXCEPT !.state = core_jump(@)]

jump(rng) == [rng EXCEPT !.state = core_jump(@), !.index = NOT0]

\* the offsets of self.random that next_u32 (need = 4) or next_u64 (need = 8)
\* reads: random[index + 0] .. random[index + need - 1]
next_reads(rng, need) ==
    LET index == IF U32Gt(rng.index, BlockBytes - need) THEN 0 ELSE rng.index[2]
    IN  index .. index + need - 1

\* the offsets of self.random that the `loop` of fill_bytes copies from:
\* src[..len] with src = &random[start..]
RECURSIVE fill_rest_reads(_, _, _)
fill_rest_reads(rng, pos, n) ==
    LET start == U32MinUsize(rng.index, BlockBytes)
        len   == Min(BlockBytes - start, n - pos)
    IN  IF n - (pos + len) > 0
        THEN (start .. start + len - 1)
             \cup fill_rest_reads([rng EXCEPT !.index = U32(0)], pos + len, n)
        ELSE start .. start + len - 1

\* the offsets of self.random that fill_bytes(&mut dst[..n]) reads
fill_bytes_reads(rng, n) ==
    IF n % BlockBytes > 0 THEN fill_rest_reads(rng, n - (n % BlockBytes), n) ELSE {}

----------------------------------------------------------------------------
(* The mixing generators (SplitMix64, Xoshiro256, Wyrand) fill bytes with  *)
(* rng_fill_bytes.  Here the generator is any Rng: each next_u64 yields a  *)
(* fresh 64-bit word, kept as its eight bytes, least significant first.    *)

WordBytes == 8

mix_next_u64(state) ==
    [state |-> [state EXCEPT !.counter = @ + 1],
     value |-> [k \in 0 .. WordBytes - 1 |-> BlockId(state) * WordBytes + k]]

\* `value >> (8 * n)` on the byte form: the low n bytes drop out
ShrBytes(v, n) ==
    [k \in 0 .. WordBytes - 1 |-> IF k + n < WordBytes THEN v[k + n] ELSE 0]

\* the `while len >= 8` loop
RECURSIVE rng_fill_words(_, _, _, _)
rng_fill_words(state, dst, ptr, len) ==
    IF len >= 8
    THEN LET nx == mix_next_u64(state)
         IN  rng_fill_words(nx.state,
                            copy_nonoverlapping(nx.value, 0, dst, ptr, 8),
                            ptr + 8, len - 8)
    ELSE [state |-> state, dst |-> dst, ptr |-> ptr, len |-> len]

\* the `if len > 0` tail: a u32 write, a u16 write, a u8 write
rng_fill_tail(state, dst, ptr, len) ==
    LET nx   == mix_next_u64(state)
        v0   == nx.value
        w4   == len >= 4
        dst4 == IF w4 THEN copy_nonoverlapping(v0, 0, dst, ptr, 4) ELSE dst
        ptr4 == IF w4 THEN ptr + 4 ELSE ptr
        len4 == IF w4 THEN len - 4 ELSE len
        v4   == IF w4 THEN ShrBytes(v0, 4) ELSE v0
        w2   == len4 >= 2
        dst2 == IF w2 THEN copy_nonoverlapping(v4, 0, dst4, ptr4, 2) ELSE dst4
        ptr2 == IF w2 THEN ptr4 + 2 ELSE ptr4
        len2 == IF w2 THEN len4 - 2 ELSE len4
        v2   == IF w2 THEN ShrBytes(v4, 2) ELSE v4
        dst1 == IF len2 >= 1 THEN copy_nonoverlapping(v2, 0, dst2, ptr2, 1)
                ELSE dst2
    IN  [state |-> nx.state, dst |-> dst1]

\* rng_fill_bytes(rng, &mut dst[..n])
rng_fill_bytes(rng, dst, n) ==
    LET w == rng_fill_words(rng.state, dst, 0, n)
        t == IF w.len > 0 THEN rng_fill_tail(w.state, w.dst, w.ptr, w.len)
             ELSE [state |-> w.state, dst |-> w.dst]
    IN  [rng |-> [rng EXCEPT !.state = t.state], dst |-> t.dst]

mix_next_u32(rng) ==
    LET nx == mix_next_u64(rng.state)
    IN  [rng |-> [rng EXCEPT !.state = nx.state],
         value |-> <<nx.value[4], nx.value[5], nx.value[6], nx.value[7]>>]

mix_jump(rng) == [rng EXCEPT !.state = core_jump(@)]

----------------------------------------------------------------------------
(* UniformInt (distr/uniform/int.rs).  impl_uniform_int! is instantiated   *)
(* for a type of `bits` bits, signed or not, whose raw word ($large) has   *)
(* `large` bits.  The crate instantiates it at (8, 32), (16, 32), (32, 64) *)
(* and (64, 64); the model instantiates the same macro at (TyBits,         *)
(* LargeBits) and (LargeBits, LargeBits) so that every raw word can be     *)
(* enumerated.  A value of the type is kept as the integer it denotes.     *)

Instantiations ==
    { [signed |-> sg, bits |-> b, large |-> LargeBits] :
        sg \in BOOLEAN, b \in {TyBits, LargeBits} }

TyMin(t) == IF t.signed THEN -(2 ^ (t.bits - 1)) ELSE 0

TyMax(t) == IF t.signed THEN 2 ^ (t.bits - 1) - 1 ELSE 2 ^ t.bits - 1

TyValues(t) == TyMin(t) .. TyMax(t)

\* `x as $unsigned`: the bit pattern of x read as an unsigned number
AsUnsigned(t, x) == x % (2 ^ t.bits)

\* `u as $ty`: the low `bits` bits of u read as a value of the type
AsTy(t, u) ==
    LET w == u % (2 ^ t.bits)
    IN  IF t.signed /\ w >= 2 ^ (t.bits - 1) THEN w - 2 ^ t.bits ELSE w

wrapping_sub(t, a, b) == AsTy(t, a - b)

wrapping_add(t, a, b) == AsTy(t, a + b)

EmptyRange == [ok |-> FALSE, base |-> 0, range |-> 0]

\* try_new with the bounds compared as unsigned bit patterns
try_new_unsigned_cmp(t, lo, hi) ==
    IF AsUnsigned(t, lo) >= AsUnsigned(t, hi) THEN EmptyRange
    ELSE [ok |-> TRUE, base |-> lo,
          range |-> AsTy(t, AsUnsigned(t, wrapping_sub(t, hi, lo)))]

try_new(t, lo, hi) ==
    IF lo >= hi THEN EmptyRange
    ELSE [ok |-> TRUE, base |-> lo,
          range |-> AsTy(t, AsUnsigned(t, wrapping_sub(t, hi, lo)))]

try_new_inclusive(t, lo, hi) ==
    IF lo > hi THEN EmptyRange
    ELSE [ok |-> TRUE, base |-> lo,
          range |-> AsTy(t, AsUnsigned(t,
                        wrapping_add(t, wrapping_sub(t, hi, lo), 1)))]

\* wmul32 / wmul64: the two halves of the double-width product
wmul(t, a, b) ==
    LET full == a * b
    IN  [msw |-> full \div (2 ^ t.large), lsw |-> full % (2 ^ t.large)]

\* `self.range as $unsigned as $large`
RangeOf(t, d) == AsUnsigned(t, d.range)

\* sample, reading the stored range without `as $unsigned` (sign extended)
sample_iter_signext(t, d, z, v) ==
    LET range  == d.range % (2 ^ t.large)
        m      == wmul(t, v, range)
        accept == [done |-> TRUE, zone |-> z,
                   result |-> wrapping_add(t, d.base, AsTy(t, m.msw))]
        thresh == ((0 - range) % (2 ^ t.large)) % range
    IN  IF range = 0 THEN [done |-> TRUE, zone |-> z, result |-> AsTy(t, v)]
        ELSE IF m.lsw >= z THEN accept
        ELSE IF z = range
             THEN IF m.lsw >= thresh THEN [accept EXCEPT !.zone = thresh]
                  ELSE [done |-> FALSE, zone |-> thresh, result |-> 0]
             ELSE [done |-> FALSE, zone |-> z, result |-> 0]

\* sample, with the threshold taken as $large::MAX % range
sample_iter_maxmod(t, d, z, v) ==
    LET range  == RangeOf(t, d)
        m      == wmul(t, v, range)
        accept == [done |-> TRUE, zone |-> z,
                   result |-> wrapping_add(t, d.base, AsTy(t, m.msw))]
        thresh == (2 ^ t.large - 1) % range
    IN  IF range = 0 THEN [done |-> TRUE, zone |-> z, result |-> AsTy(t, v)]
        ELSE IF m.lsw >= z THEN accept
        ELSE IF z = range
             THEN IF m.lsw >= thresh THEN [accept EXCEPT !.zone = thresh]
                  ELSE [done |-> FALSE, zone |-> thresh, result |-> 0]
             ELSE [done |-> FALSE, zone |-> z, result |-> 0]

\* sample, without the second `if lsw >= zone` once the zone is computed
sample_iter_no_retest(t, d, z, v) ==
    LET range  == RangeOf(t, d)
        m      == wmul(t, v, range)
        accept == [done |-> TRUE, zone |-> z,
                   result |-> wrapping_add(t, d.base, AsTy(t, m.msw))]
        thresh == ((0 - range) % (2 ^ t.large)) % range
    IN  IF range = 0 THEN [done |-> TRUE, zone |-> z, result |-> AsTy(t, v)]
        ELSE IF m.lsw >= z THEN accept
        ELSE IF z = range
             THEN [done |-> FALSE, zone |-> thresh, result |-> 0]
             ELSE [done |-> FALSE, zone |-> z, result |-> 0]

\* sample, leaving `zone` as it was once the threshold is computed
sample_iter_forgets(t, d, z, v) ==
    LET range  == RangeOf(t, d)
        m      == wmul(t, v, range)
        accept == [done |-> TRUE, zone |-> z,
                   result |-> wrapping_add(t, d.base, AsTy(t, m.msw))]
        thresh == ((0 - range) % (2 ^ t.large)) % range
    IN  IF range = 0 THEN [done |-> TRUE, zone |-> z, result |-> AsTy(t, v)]
        ELSE IF m.lsw >= z THEN accept
        ELSE IF z = range
             THEN IF m.lsw >= thresh THEN accept
                  ELSE [done |-> FALSE, zone |-> z, result |-> 0]
             ELSE [done |-> FALSE, zone |-> z, result |-> 0]

\* sample, without the `if range == 0` test
sample_iter_no_zero_test(t, d, z, v) ==
    LET range  == RangeOf(t, d)
        m      == wmul(t, v, range)
        accept == [done |-> TRUE, zone |-> z,
                   result |-> wrapping_add(t, d.base, AsTy(t, m.msw))]
    IN  IF m.lsw >= z THEN accept
        ELSE IF z = range /\ range # 0
             THEN LET thresh == ((0 - range) % (2 ^ t.large)) % range
                  IN  IF m.lsw >= thresh THEN [accept EXCEPT !.zone = thresh]
                      ELSE [done |-> FALSE, zone |-> thresh, result |-> 0]
             ELSE [done |-> FALSE, zone |-> z, result |-> 0]

\* one pass of the `loop` of sample with the raw word v drawn: whether it
\* breaks, the value it breaks with, and `zone` afterwards
sample_iter(t, d, z, v) ==
    LET range  == RangeOf(t, d)
        m      == wmul(t, v, range)
        accept == [done |-> TRUE, zone |-> z,
                   result |-> wrapping_add(t, d.base, AsTy(t, m.msw))]
        thresh == ((0 - range) % (2 ^ t.large)) % range
    IN  IF range = 0 THEN [done |-> TRUE, zone |-> z, result |-> AsTy(t, v)]
        ELSE IF m.lsw >= z THEN accept
        ELSE IF z = range
             THEN IF m.lsw >= thresh THEN [accept EXCEPT !.zone = thresh]
                  ELSE [done |-> FALSE, zone |-> thresh, result |-> 0]
             ELSE [done |-> FALSE, zone |-> z, result |-> 0]

RawWords(t) == 0 .. 2 ^ t.large - 1

NoSample == [some |-> FALSE, v |-> 0]

IdleUniform ==
    /\ ty = [signed |-> FALSE, bits |-> TyBits, large |-> LargeBits]
    /\ low = 0
    /\ high = 0
    /\ inclusive = FALSE
    /\ distr = EmptyRange
    /\ zone = 0
    /\ raw = 0
    /\ sampled = NoSample
    /\ upc = "new"
    /\ draws = 0

----------------------------------------------------------------------------
(* Floats.  A u64 is four 16-bit limbs, most significant first.  A float   *)
(* is kept as the fields of its bit pattern: sign, biased exponent and     *)
(* mantissa (limbs, most significant first: 7 + 16 bits for f32, 4 + 16 +  *)
(* 16 + 16 bits for f64).                                                  *)

\* exponent field of 1.0 and its width; `top` is the literal sample starts
\* from (126, 1022)
F32 == [name |-> "f32", bias |-> 127, expBits |-> 8, top |-> 126]

F64 == [name |-> "f64", bias |-> 1023, expBits |-> 11, top |-> 1022]

\* u16::leading_zeros
Lz16(x) == IF x = 0 THEN 16 ELSE CHOOSE k \in 0 .. 15 : x \div (2 ^ (15 - k)) = 1

\* u64::leading_zeros
leading_zeros(w) ==
    IF w[1] # 0 THEN Lz16(w[1])
    ELSE IF w[2] # 0 THEN 16 + Lz16(w[2])
    ELSE IF w[3] # 0 THEN 32 + Lz16(w[3])
    ELSE 48 + Lz16(w[4])

\* from_bits(exp << (MANTISSA_DIGITS - 1) | mantissa): bits of exp above the
\* exponent field land in the sign bit
from_bits(f, exp, mantissa) ==
    [sign |-> (exp \div (2 ^ f.expBits)) % 2,
     exp  |-> exp % (2 ^ f.expBits),
     mant |-> mantissa]

\* rng_f32: 127 << 23 | seed >> 9, seed a u32 <<hi, lo>>
rng_f32(sd) ==
    from_bits(F32, 127, <<sd[1] \div 512, (sd[1] % 512) * 128 + sd[2] \div 512>>)

\* rng_f64: 1023 << 52 | seed >> 12
rng_f64(sd) ==
    from_bits(F64, 1023,
              <<sd[1] \div 4096,
                (sd[1] % 4096) * 16 + sd[2] \div 4096,
                (sd[2] % 4096) * 16 + sd[3] \div 4096,
                (sd[3] % 4096) * 16 + sd[4] \div 4096>>)

next_f(f, sd) == IF f.name = "f32" THEN rng_f32(sd) ELSE rng_f64(sd)

\* replace_exponent_f32 / replace_exponent_f64
replace_exponent(f, v, exp) ==
    LET mantissa == v.mant
    IN  from_bits(f, exp, mantissa)

\* Float01::sample starting from the exponent of 1.0
Float01_sample_from_one(f, w, sd) ==
    LET exp == f.bias - leading_zeros(w)
    IN  replace_exponent(f, next_f(f, sd), exp)

\* Float01::sample with the draws w = next_u64() and sd behind next_f*()
Float01_sample(f, w, sd) ==
    LET exp == f.top - leading_zeros(w)
    IN  replace_exponent(f, next_f(f, sd), exp)

IsZeroMant(m) == \A k \in 1 .. Len(m) : m[k] = 0

IsNaN(x) == x.exp = 2 ^ F64.expBits - 1 /\ ~IsZeroMant(x.mant)

IsZero(x) == x.exp = 0 /\ IsZeroMant(x.mant)

\* |a| < |b| for two f64 that are not NaN
RECURSIVE LimbsLt(_, _, _)
LimbsLt(a, b, k) ==
    IF k > Len(a) THEN FALSE
    ELSE IF a[k] # b[k] THEN a[k] < b[k]
    ELSE LimbsLt(a, b, k + 1)

MagLt(a, b) == a.exp < b.exp \/ (a.exp = b.exp /\ LimbsLt(a.mant, b.mant, 1))

MagLe(a, b) == ~MagLt(b, a)

\* `a <= b` on f64
f64_le(a, b) ==
    /\ ~IsNaN(a)
    /\ ~IsNaN(b)
    /\ \/ IsZero(a) /\ IsZero(b)
       \/ a.sign = 1 /\ b.sign = 0
       \/ a.sign = 0 /\ b.sign = 0 /\ MagLe(a, b)
       \/ a.sign = 1 /\ b.sign = 1 /\ MagLe(b, a)

\* Bernoulli::sample comparing the generator's [1, 2) float with p
Bernoulli_sample_raw(prob, w, sd) == f64_le(next_f(F64, sd), prob)

\* Bernoulli::sample
Bernoulli_sample(prob, w, sd) == f64_le(Float01_sample(F64, w, sd), prob)

\* the u64 with z leading zeros whose lower bits are all ones or all zero
WordWithLz(z, ones) ==
    LET top == 63 - z
    IN  [j \in 1 .. 4 |->
            LET lowest == 16 * (4 - j)
            IN  IF z = 64 \/ top < lowest THEN 0
                ELSE IF top >= lowest + 16 THEN (IF ones THEN Limb - 1 ELSE 0)
                ELSE IF ones THEN 2 ^ (top - lowest + 1) - 1
                ELSE 2 ^ (top - lowest)]

\* raw words for the exponent draw: every leading-zero count, and all ones
CoinWords == { WordWithLz(z, FALSE) : z \in 0 .. 64 } \cup { WordWithLz(0, TRUE) }

\* raw words behind the mantissa: all zero, all one, and around the shift
Seeds64 == { WordWithLz(z, o) : z \in {0, 51, 52, 64}, o \in BOOLEAN }

Seeds32 == { <<s[3], s[4]>> : s \in { WordWithLz(z, o) : z \in {32, 54, 55, 64}, o \in BOOLEAN } }

ZeroMant64 == <<0, 0, 0, 0>>

OnesMant64 == <<15, Limb - 1, Limb - 1, Limb - 1>>

\* values of p: 0.0, -0.0, 1.0, 0.5, 2.0, -1.0, the infinities, a NaN, the
\* least subnormal, the neighbours of 1.0, and 2^-65 with its lower neighbour
Probabilities ==
    { [sign |-> 0, exp |-> 0, mant |-> ZeroMant64],
      [sign |-> 1, exp |-> 0, mant |-> ZeroMant64],
      [sign |-> 0, exp |-> 1023, mant |-> ZeroMant64],
      [sign |-> 0, exp |-> 1022, mant |-> ZeroMant64],
      [sign |-> 0, exp |-> 1024, mant |-> ZeroMant64],
      [sign |-> 1, exp |-> 1023, mant |-> ZeroMant64],
      [sign |-> 0, exp |-> 2047, mant |-> ZeroMant64],
      [sign |-> 1, exp |-> 2047, mant |-> ZeroMant64],
      [sign |-> 0, exp |-> 2047, mant |-> <<8, 0, 0, 0>>],
      [sign |-> 0, exp |-> 0, mant |-> <<0, 0, 0, 1>>],
      [sign |-> 0, exp |-> 1022, mant |-> OnesMant64],
      [sign |-> 0, exp |-> 1023, mant |-> <<0, 0, 0, 1>>],
      [sign |-> 0, exp |-> 958, mant |-> ZeroMant64],
      [sign |-> 0, exp |-> 957, mant |-> OnesMant64] }

IdleFloat ==
    /\ fmt = F64
    /\ coin = ZeroMant64
    /\ seed = ZeroMant64
    /\ float = [sign |-> 0, exp |-> 0, mant |-> ZeroMant64]
    /\ fpc = "new"
    /\ p = [sign |-> 0, exp |-> 0, mant |-> ZeroMant64]
    /\ outcome = FALSE
    /\ bpc = "new"

----------------------------------------------------------------------------
(* ChaCha (rng/chacha).  A u32 is <<high limb, low limb>>; a u64 is four   *)
(* limbs, most significant first.  A row of the matrix is four u32.        *)

u32_wrapping_add(a, b) ==
    LET lo == a[2] + b[2]
    IN  <<(a[1] + b[1] + (lo \div Limb)) % Limb, lo % Limb>>

\* x ^ y on 4 bits
XorNib ==
    [x \in 0 .. 15 |-> [y \in 0 .. 15 |->
        ((x + y) % 2)
        + 2 * (((x \div 2) + (y \div 2)) % 2)
        + 4 * (((x \div 4) + (y \div 4)) % 2)
        + 8 * (((x \div 8) + (y \div 8)) % 2)]]

u16_xor(x, y) ==
    XorNib[x % 16][y % 16]
    + 16 * XorNib[(x \div 16) % 16][(y \div 16) % 16]
    + 256 * XorNib[(x \div 256) % 16][(y \div 256) % 16]
    + 4096 * XorNib[x \div 4096][y \div 4096]

u32_xor(a, b) == <<u16_xor(a[1], b[1]), u16_xor(a[2], b[2])>>

\* a << n | a >> (32 - n), 0 < n < 32
u32_rol(a, n) ==
    LET s == IF n >= 16 THEN <<a[2], a[1]>> ELSE a
        m == n % 16
    IN  IF m = 0 THEN s
        ELSE <<((s[1] * (2 ^ m)) % Limb) + (s[2] \div (2 ^ (16 - m))),
               ((s[2] * (2 ^ m)) % Limb) + (s[1] \div (2 ^ (16 - m)))>>

u32x4_add(a, b) ==
    <<u32_wrapping_add(a[1], b[1]), u32_wrapping_add(a[2], b[2]),
      u32_wrapping_add(a[3], b[3]), u32_wrapping_add(a[4], b[4])>>

u32x4_xor(a, b) ==
    <<u32_xor(a[1], b[1]), u32_xor(a[2], b[2]), u32_xor(a[3], b[3]), u32_xor(a[4], b[4])>>

u32x4_rol(a, n) ==
    <<u32_rol(a[1], n), u32_rol(a[2], n), u32_rol(a[3], n), u32_rol(a[4], n)>>

\* one line of quarter_round! on the rows m, updated in place:
\* $x = u32x4_add($x, $y); $z = u32x4_rol(u32x4_xor($z, $x), n)
quarter_round_line(m, x, y, z, n) ==
    LET sum == u32x4_add(m[x], m[y])
    IN  [m EXCEPT ![x] = sum, ![z] = u32x4_rol(u32x4_xor(m[z], sum), n)]

\* quarter_round! with its last rotation by 8
quarter_round_rot8(m) ==
    quarter_round_line(
        quarter_round_line(
            quarter_round_line(
                quarter_round_line(m, 1, 2, 4, 16),
                3, 4, 2, 12),
            1, 2, 4, 8),
        3, 4, 2, 8)

\* quarter_round!(a, b, c, d) on the rows m = <<a, b, c, d>>
quarter_round(m) ==
    quarter_round_line(
        quarter_round_line(
            quarter_round_line(
                quarter_round_line(m, 1, 2, 4, 16),
                3, 4, 2, 12),
            1, 2, 4, 8),
        3, 4, 2, 7)

\* rotate_matrix!(a, b, c, d): the rows come back in argument order
rotate_matrix(a, b, c, d) ==
    << <<a[1], a[2], a[3], a[4]>>,
       <<b[2], b[3], b[4], b[1]>>,
       <<c[3], c[4], c[1], c[2]>>,
       <<d[4], d[1], d[2], d[3]>> >>

\* rotate_matrix!(a, b, c, d) on the rows m = <<a, b, c, d>>
rotate_abcd(m) == rotate_matrix(m[1], m[2], m[3], m[4])

\* rotate_matrix!(a, d, c, b) on the rows m = <<a, b, c, d>>
rotate_adcb(m) ==
    LET r == rotate_matrix(m[1], m[4], m[3], m[2])
    IN  <<r[1], r[4], r[3], r[2]>>

\* one pass of the loop body for one block
double_round(m) == rotate_adcb(quarter_round(rotate_abcd(quarter_round(m))))

\* F(v) with v computed before F is entered, as a loop carries its variables
\* from one pass to the next
Then(v, F(_)) == CHOOSE r \in { F(y) : y \in {v} } : TRUE

\* for _ in 0..n
RECURSIVE rounds_loop(_, _)
rounds_loop(m, n) ==
    IF n = 0 THEN m
    ELSE Then(double_round(m), LAMBDA y : rounds_loop(y, n - 1))

CHACHA_CONSTANT == <<<<24944, 30821>>, <<13088, 25710>>, <<31074, 11570>>, <<27424, 25972>>>>

\* ChaChaCore::new
ChaChaCore_new(sd, counter, stream) ==
    [seed    |-> sd,
     counter |-> << <<counter[3], counter[4]>>, <<counter[1], counter[2]>> >>,
     stream  |-> << <<stream[3], stream[4]>>, <<stream[1], stream[2]>> >>]

get_state(c) ==
    << CHACHA_CONSTANT,
       <<c.seed[1], c.seed[2], c.seed[3], c.seed[4]>>,
       <<c.seed[5], c.seed[6], c.seed[7], c.seed[8]>>,
       <<c.counter[1], c.counter[2], c.stream[1], c.stream[2]>> >>

get_counter(c) ==
    <<c.counter[2][1], c.counter[2][2], c.counter[1][1], c.counter[1][2]>>

set_counter(c, counter) ==
    [c EXCEPT !.counter = << <<counter[3], counter[4]>>, <<counter[1], counter[2]>> >>]

\* the limbs of a + n and the carry out of bit 63, 0 <= n < 2^16
u64_add_carry(a, n) ==
    LET s4 == a[4] + n
        s3 == a[3] + (s4 \div Limb)
        s2 == a[2] + (s3 \div Limb)
        s1 == a[1] + (s2 \div Limb)
    IN  [sum |-> <<s1 % Limb, s2 % Limb, s3 % Limb, s4 % Limb>>,
         carry |-> s1 \div Limb]

u64_wrapping_add(a, n) == u64_add_carry(a, n).sum

add_counter(c, n) == set_counter(c, u64_wrapping_add(get_counter(c), n))

\* the rounds and the final addition for the block that starts from `words`
block_words(N, words) ==
    LET m == rounds_loop(words, N \div 2)
    IN  u32x4_add(m[1], words[1]) \o u32x4_add(m[2], words[2])
        \o u32x4_add(m[3], words[3]) \o u32x4_add(m[4], words[4])

\* block::<N>(state, ws); `checks` is whether the build checks integer
\* overflow: `get_counter() + 4` then panics instead of wrapping
block(N, checks, state) ==
    LET sum == u64_add_carry(get_counter(state), 4)
        overflow == sum.carry # 0
    IN  [ws       |-> <<block_words(N, get_state(state)),
                        block_words(N, get_state(add_counter(state, 1))),
                        block_words(N, get_state(add_counter(state, 2))),
                        block_words(N, get_state(add_counter(state, 3)))>>,
         panicked |-> checks /\ overflow,
         state    |-> IF checks /\ overflow THEN state ELSE set_counter(state, sum.sum)]

(* The single-block transform (rng/chacha20/scalar.rs) on 16 words.        *)

\* one line of quarter_round! on the words x:
\* $p = $p.wrapping_add($q); $r = ($r ^ $p).rotate_left(n)
scalar_line(x, ip, iq, ir, n) ==
    LET sum == u32_wrapping_add(x[ip], x[iq])
    IN  [x EXCEPT ![ip] = sum, ![ir] = u32_rol(u32_xor(x[ir], sum), n)]

scalar_quarter_round(x, ia, ib, ic, id) ==
    scalar_line(
        scalar_line(
            scalar_line(
                scalar_line(x, ia, ib, id, 16),
                ic, id, ib, 12),
            ia, ib, id, 8),
        ic, id, ib, 7)

scalar_double_round(x) ==
    LET c1 == scalar_quarter_round(x, 1, 5, 9, 13)
        c2 == scalar_quarter_round(c1, 2, 6, 10, 14)
        c3 == scalar_quarter_round(c2, 3, 7, 11, 15)
        c4 == scalar_quarter_round(c3, 4, 8, 12, 16)
        d1 == scalar_quarter_round(c4, 1, 6, 11, 16)
        d2 == scalar_quarter_round(d1, 2, 7, 12, 13)
        d3 == scalar_quarter_round(d2, 3, 8, 9, 14)
    IN  scalar_quarter_round(d3, 4, 5, 10, 15)

RECURSIVE scalar_loop(_, _)
scalar_loop(x, n) ==
    IF n = 0 THEN x
    ELSE Then(scalar_double_round(x), LAMBDA y : scalar_loop(y, n - 1))

\* the output block of scalar::block
scalar_block(state) ==
    LET x == scalar_loop(state, 10)
    IN  [j \in 1 .. 16 |-> u32_wrapping_add(x[j], state[j])]

\* the 16 words of a state, row by row
state_words(c) ==
    LET m == get_state(c)
    IN  m[1] \o m[2] \o m[3] \o m[4]

ZeroRow == << <<0, 0>>, <<0, 0>>, <<0, 0>>, <<0, 0>> >>

ZeroBlock == ZeroRow \o ZeroRow \o ZeroRow \o ZeroRow

ZeroKey == ZeroRow \o ZeroRow

\* the key of the first test vector, bytes 00 .. 1f
TestKey == <<
    <<770, 256>>, <<1798, 1284>>, <<2826, 2312>>, <<3854, 3340>>,
    <<4882, 4368>>, <<5910, 5396>>, <<6938, 6424>>, <<7966, 7452>> >>

Keys == {ZeroKey, TestKey}

U64Zero == <<0, 0, 0, 0>>

\* counters: 0, 1, the test vector's, those across the low word's carry, and
\* those within 4 of 2^64
Counters ==
    { u64_wrapping_add(U64Zero, n) : n \in 0 .. 1 }
    \cup { <<2304, 0, 0, 1>> }
    \cup { u64_wrapping_add(<<0, 0, Limb - 1, Limb - 1>>, n) : n \in {0, 1} }
    \cup { u64_wrapping_add(<<Limb - 1, Limb - 1, Limb - 1, Limb - 5>>, n) : n \in 0 .. 4 }

Streams == { U64Zero, <<0, 0, 18944, 0>> }

RoundCounts == {8, 12, 20}

\* the block expected for the all-zero key, counter and stream at 20 rounds
ZeroVector == <<
    <<44512, 47222>>, <<36925, 61856>>, <<58730, 23872>>, <<10429, 34387>>,
    <<47129, 53949>>, <<6893, 36256>>, <<52463, 13992>>, <<50957, 30603>>,
    <<31833, 16858>>, <<36168, 22353>>, <<16352, 9335>>, <<14154, 55480>>,
    <<62648, 17258>>, <<7329, 6165>>, <<27062, 34755>>, <<34405, 61106>> >>

\* the block expected for TestKey, counter 0x0900000000000001, stream 0x4a000000
TestVector == <<
    <<58599, 61712>>, <<5465, 15313>>, <<8157, 3920>>, <<50289, 8355>>,
    <<51188, 53703>>, <<872, 49203>>, <<39594, 8708>>, <<20076, 54467>>,
    <<18020, 33490>>, <<2474, 40711>>, <<1495, 49684>>, <<41474, 35801>>,
    <<53660, 4789>>, <<47438, 5854>>, <<59523, 53451>>, <<20028, 20642>> >>

NoBlocks == <<ZeroBlock, ZeroBlock, ZeroBlock, ZeroBlock>>

IdleChaCha ==
    /\ rounds = 20
    /\ overflowChecks = FALSE
    /\ core = ChaChaCore_new(ZeroKey, U64Zero, U64Zero)
    /\ prev = ChaChaCore_new(ZeroKey, U64Zero, U64Zero)
    /\ ws = NoBlocks
    /\ cpc = "new"
    /\ gens = 0

----------------------------------------------------------------------------
(* The ChaCha<N> generator (rng/chacha.rs): 16 state words, a word index   *)
(* and the buffered block.  Words are StreamWordBits wide.  A generated    *)
(* block is known by the state it was generated from (its cipher input);   *)
(* the block of a fresh instance is ZeroInput.                             *)

NWORDS == 16

BSIZE == 16 * 4

StreamWord == 2 ^ StreamWordBits

\* the sum a + n over the words lo .. hi of the state (least significant
\* first), wrapping
RECURSIVE wrapping_add_words(_, _, _, _)
wrapping_add_words(state, lo, hi, n) ==
    IF lo > hi THEN state
    ELSE wrapping_add_words([state EXCEPT ![lo] = (state[lo] + n) % StreamWord],
                            lo + 1, hi, (state[lo] + n) \div StreamWord)

\* increment_counter: words 12..15 as one 128-bit integer
increment_counter(state) == wrapping_add_words(state, 13, 16, 1)

\* increment_stream: words 14..15 as one 64-bit integer
increment_stream(state) == wrapping_add_words(state, 15, 16, 1)

ZeroInput == <<>>

\* chacha_block(&mut state, &mut random, N): the block is that of the
\* state as found, then the counter advances
chacha_block(state) == [random |-> state, state |-> increment_counter(state)]

\* ChaCha { state, index: NWORDS, random: [0; NWORDS] }
ChaCha_new(state) == [state |-> state, index |-> NWORDS, random |-> ZeroInput]

\* word k of a block, byte m of a block
BlockWord(random, k) == <<random, k>>

BlockByte(random, m) == <<random, m>>

\* len bytes of a block from byte `from` on
random_bytes(random, from, len) ==
    IF len = 0 THEN <<>> ELSE [m \in 1 .. len |-> BlockByte(random, from + m - 1)]

\* ChaCha::next_u32
ChaCha_next_u32(g) ==
    LET refill == g.index >= NWORDS
        b      == chacha_block(g.state)
        index  == IF refill THEN 0 ELSE g.index
        random == IF refill THEN b.random ELSE g.random
    IN  [rng  |-> [state  |-> IF refill THEN b.state ELSE g.state,
                   index  |-> index + 1,
                   random |-> random],
         out  |-> <<BlockWord(random, index)>>,
         gens |-> IF refill THEN {g.state} ELSE {}]

\* ChaCha::next_u64
ChaCha_next_u64(g) ==
    LET refill == g.index >= NWORDS - 1
        b      == chacha_block(g.state)
        index  == IF refill THEN 0 ELSE g.index
        random == IF refill THEN b.random ELSE g.random
    IN  [rng  |-> [state  |-> IF refill THEN b.state ELSE g.state,
                   index  |-> index + 2,
                   random |-> random],
         out  |-> <<BlockWord(random, index), BlockWord(random, index + 1)>>,
         gens |-> IF refill THEN {g.state} ELSE {}]

\* fill_bytes, `while buf.len() >= BSIZE`: r is [rng, out, gens], n the
\* bytes still to write
RECURSIVE ChaCha_fill_direct(_, _)
ChaCha_fill_direct(r, n) ==
    IF n < BSIZE THEN r
    ELSE LET b == chacha_block(r.rng.state)
         IN  ChaCha_fill_direct(
                 [rng  |-> [r.rng EXCEPT !.state = b.state],
                  out  |-> r.out \o random_bytes(b.random, 0, BSIZE),
                  gens |-> r.gens \cup {r.rng.state}],
                 n - BSIZE)

\* fill_bytes, the `loop` over the buffered block
RECURSIVE ChaCha_fill_rest(_, _)
ChaCha_fill_rest(r, n) ==
    LET index == Min(r.rng.index, NWORDS)
        srcl  == 4 * (NWORDS - index)
        len   == Min(srcl, n)
        out   == r.out \o random_bytes(r.rng.random, 4 * index, len)
        b     == chacha_block(r.rng.state)
    IN  IF n - len > 0
        THEN ChaCha_fill_rest(
                 [rng  |-> [state |-> b.state, index |-> 0, random |-> b.random],
                  out  |-> out,
                  gens |-> r.gens \cup {r.rng.state}],
                 n - len)
        ELSE [rng  |-> [r.rng EXCEPT !.index = r.rng.index + ((len + 3) \div 4)],
              out  |-> out,
              gens |-> r.gens]

\* ChaCha::fill_bytes on a buffer of n bytes
ChaCha_fill_bytes(g, n) ==
    LET d == ChaCha_fill_direct([rng |-> g, out |-> <<>>, gens |-> {}], n)
    IN  IF n % BSIZE > 0 THEN ChaCha_fill_rest(d, n % BSIZE) ELSE d

\* ChaCha::jump advancing the counter words in place of the stream words
ChaCha_jump_counter(g) == [g EXCEPT !.state = increment_counter(g.state), !.index = NWORDS]

\* ChaCha::jump
ChaCha_jump(g) == [g EXCEPT !.state = increment_stream(g.state), !.index = NWORDS]

\* the state words: the constants, a key, and counter and stream words at
\* either end of their range
StreamStates ==
    { CHACHA_CONSTANT \o [k \in 1 .. 8 |-> k % StreamWord] \o <<c, c, t, t>> :
        c \in {0, StreamWord - 1}, t \in {0, StreamWord - 1} }

\* buffer lengths: within a word, across two blocks, and across as many
\* blocks as the two counter words count
StreamFillLens == {3, BSIZE + 5, (StreamWord * StreamWord * BSIZE) + 5}

NotJumped == [some |-> FALSE, pre |-> ChaCha_new(<<>>), post |-> ChaCha_new(<<>>)]

IdleStream ==
    /\ sa = ChaCha_new(<<>>)
    /\ sb = ChaCha_new(<<>>)
    /\ isSplit = FALSE
    /\ usedA = {}
    /\ usedB = {}
    /\ sout = <<>>
    /\ jumped = NotJumped
    /\ sops = 0

----------------------------------------------------------------------------
(* SplitMix64 (rng/splitmix64.rs) and Xoshiro256 (rng/xoshiro256.rs), on   *)
(* u64 values of four 16-bit limbs, most significant first.                *)

u64_add(a, b) ==
    LET s4 == a[4] + b[4]
        s3 == a[3] + b[3] + (s4 \div Limb)
        s2 == a[2] + b[2] + (s3 \div Limb)
        s1 == a[1] + b[1] + (s2 \div Limb)
    IN  <<s1 % Limb, s2 % Limb, s3 % Limb, s4 % Limb>>

u64_xor(a, b) ==
    <<u16_xor(a[1], b[1]), u16_xor(a[2], b[2]), u16_xor(a[3], b[3]), u16_xor(a[4], b[4])>>

\* limb k of a, 0 outside the value
u64_limb(a, k) == IF k \in 1 .. 4 THEN a[k] ELSE 0

\* limb k of a >> (16 * q + r)
u64_shr_limb(a, k, q, r) ==
    (u64_limb(a, k - q) \div (2 ^ r))
    + ((u64_limb(a, k - q - 1) % (2 ^ r)) * (2 ^ (16 - r)))

\* a >> n, 0 <= n < 64
u64_shr(a, n) ==
    <<u64_shr_limb(a, 1, n \div 16, n % 16), u64_shr_limb(a, 2, n \div 16, n % 16),
      u64_shr_limb(a, 3, n \div 16, n % 16), u64_shr_limb(a, 4, n \div 16, n % 16)>>

\* limb k of a << (16 * q + r)
u64_shl_limb(a, k, q, r) ==
    ((u64_limb(a, k + q) * (2 ^ r)) % Limb)
    + (u64_limb(a, k + q + 1) \div (2 ^ (16 - r)))

\* a << n, 0 <= n < 64
u64_shl(a, n) ==
    <<u64_shl_limb(a, 1, n \div 16, n % 16), u64_shl_limb(a, 2, n \div 16, n % 16),
      u64_shl_limb(a, 3, n \div 16, n % 16), u64_shl_limb(a, 4, n \div 16, n % 16)>>

\* the bits of l and r never meet
u64_or_disjoint(l, r) == <<l[1] + r[1], l[2] + r[2], l[3] + r[3], l[4] + r[4]>>

\* a.rotate_left(n), 0 < n < 64
u64_rotate_left(a, n) == u64_or_disjoint(u64_shl(a, n), u64_shr(a, 64 - n))

\* the 32-bit product of two limbs as <<high, low>>
u16_mul(a, b) ==
    LET p0 == a * (b % 256)
        p1 == a * (b \div 256)
        m  == ((p1 % 256) * 256) + p0
    IN  <<(p1 \div 256) + (m \div Limb), m % Limb>>

\* a.wrapping_mul(b): the columns of the long multiplication, then the carries
u64_wrapping_mul(a, b) ==
    LET c4 == u16_mul(a[4], b[4])[2]
        c3 == u16_mul(a[4], b[3])[2] + u16_mul(a[3], b[4])[2] + u16_mul(a[4], b[4])[1]
        c2 == u16_mul(a[4], b[2])[2] + u16_mul(a[3], b[3])[2] + u16_mul(a[2], b[4])[2]
              + u16_mul(a[4], b[3])[1] + u16_mul(a[3], b[4])[1]
              + (c3 \div Limb)
        c1 == u16_mul(a[4], b[1])[2] + u16_mul(a[3], b[2])[2]
              + u16_mul(a[2], b[3])[2] + u16_mul(a[1], b[4])[2]
              + u16_mul(a[4], b[2])[1] + u16_mul(a[3], b[3])[1] + u16_mul(a[2], b[4])[1]
              + (c2 \div Limb)
    IN  <<c1 % Limb, c2 % Limb, c3 % Limb, c4>>

GOLDEN_GAMMA == <<40503, 31161, 32586, 31765>>

\* z ^ (z >> n)
xor_shr(z, n) == u64_xor(z, u64_shr(z, n))

mix64(z) ==
    xor_shr(u64_wrapping_mul(
                xor_shr(u64_wrapping_mul(xor_shr(z, 30), <<48984, 18285, 7396, 58809>>), 27),
                <<38096, 18875, 4913, 4587>>), 31)

\* splitmix64.rs next(x): the state after, and the value
splitmix_next(x) ==
    [state |-> u64_add(x, GOLDEN_GAMMA), value |-> mix64(u64_add(x, GOLDEN_GAMMA))]

SplitMix64_from_seed(sd) == sd

\* Xoshiro256::from_seed storing the seed unmixed
Xoshiro256_from_seed_unmixed(sd) == <<sd, U64Zero, U64Zero, U64Zero>>

\* Xoshiro256::from_seed: four next_u64 of a SplitMix64 master
Xoshiro256_from_seed(sd) ==
    LET n1 == splitmix_next(SplitMix64_from_seed(sd))
        n2 == splitmix_next(n1.state)
        n3 == splitmix_next(n2.state)
        n4 == splitmix_next(n3.state)
    IN  <<n1.value, n2.value, n3.value, n4.value>>

\* advance(s); s[0] of the source is s[1] here
advance(s) ==
    LET t  == u64_shl(s[2], 17)
        s2 == u64_xor(s[3], s[1])
        s3 == u64_xor(s[4], s[2])
        s1 == u64_xor(s[2], s2)
        s0 == u64_xor(s[1], s3)
    IN  <<s0, s1, u64_xor(s2, t), u64_rotate_left(s3, 45)>>

next_plusplus(s) ==
    [state  |-> advance(s),
     result |-> u64_add(u64_rotate_left(u64_add(s[1], s[4]), 23), s[1])]

next_plus(s) == [state |-> advance(s), result |-> u64_add(s[1], s[4])]

\* (x >> 32) as u32, as <<high limb, low limb>>
High32(x) == <<x[1], x[2]>>

\* Xoshiro256::next_u32 taking the bits of next_plusplus
Xoshiro256_next_u32_plusplus(s) ==
    [state |-> next_plusplus(s).state, value |-> High32(next_plusplus(s).result)]

\* Xoshiro256::next_u32
Xoshiro256_next_u32(s) ==
    [state |-> next_plus(s).state, value |-> High32(next_plus(s).result)]

\* Xoshiro256::next_u64
Xoshiro256_next_u64(s) ==
    [state |-> next_plusplus(s).state, value |-> next_plusplus(s).result]

\* seeds: 42 of the documented example, and seeds with low, high and all
\* bits set
XoshiroSeeds ==
    { <<a, 0, b, c>> : a \in {0, Limb - 1}, b \in {0, 1}, c \in {0, 1, 42, Limb - 1} }

Seed42 == <<0, 0, 0, 42>>

IdleXoshiro ==
    /\ xseed = U64Zero
    /\ xs = <<U64Zero, U64Zero, U64Zero, U64Zero>>
    /\ xout = <<>>
    /\ xkind = "none"
    /\ xn = 0

----------------------------------------------------------------------------
(* The constructors of Exp (distr/exp.rs) and Normal (distr/normal.rs),    *)
(* instantiated for f64.  A constructor returns [kind, err, value]: kind   *)
(* is "Ok", "Err", or "panic" for an unwrap of an Err.                     *)

F64Zero == from_bits(F64, 0, ZeroMant64)

F64Inf == from_bits(F64, 2 ^ F64.expBits - 1, ZeroMant64)

\* f64::is_finite
is_finite(x) == x.exp # 2 ^ F64.expBits - 1

\* 1.0 / x for x a zero, an infinity or a power of two: a zero gives the
\* infinity of its sign, 2^-1023 gives 2^1023, a smaller subnormal gives a
\* quotient above the largest finite value, that is infinity, and 2^1023
\* gives the subnormal 2^-1023
f64_recip(x) ==
    CASE IsZero(x) -> [sign |-> x.sign, exp |-> 2 ^ F64.expBits - 1, mant |-> ZeroMant64]
      [] ~is_finite(x) /\ IsZeroMant(x.mant) -> [sign |-> x.sign, exp |-> 0, mant |-> ZeroMant64]
      [] x.exp = 0 /\ x.mant = <<8, 0, 0, 0>> ->
            [sign |-> x.sign, exp |-> 2 ^ F64.expBits - 2, mant |-> ZeroMant64]
      [] x.exp = 0 /\ x.mant \in {<<4, 0, 0, 0>>, <<0, 0, 0, 1>>} ->
            [sign |-> x.sign, exp |-> 2 ^ F64.expBits - 1, mant |-> ZeroMant64]
      [] x.exp = 2 ^ F64.expBits - 2 /\ IsZeroMant(x.mant) ->
            [sign |-> x.sign, exp |-> 0, mant |-> <<8, 0, 0, 0>>]
      [] x.exp \in 1 .. 2 ^ F64.expBits - 3 /\ IsZeroMant(x.mant) ->
            [sign |-> x.sign, exp |-> (2 ^ F64.expBits - 2) - x.exp, mant |-> ZeroMant64]

NoDescriptor == [lambda_inverse |-> F64Zero, mean |-> F64Zero, std_dev |-> F64Zero]

Ok(v) == [kind |-> "Ok", err |-> "", value |-> v]

Err(e) == [kind |-> "Err", err |-> e, value |-> NoDescriptor]

\* Result::unwrap
unwrap(r) == IF r.kind = "Err" THEN [r EXCEPT !.kind = "panic"] ELSE r

\* ExpImpl::try_new that also refuses an infinite lambda
Exp_try_new_finite(lambda) ==
    IF ~f64_le(F64Zero, lambda) \/ ~is_finite(lambda) THEN Err("LambdaTooSmall")
    ELSE Ok([NoDescriptor EXCEPT !.lambda_inverse = f64_recip(lambda)])

\* ExpImpl::try_new: `!(lambda >= 0.0)`
Exp_try_new(lambda) ==
    IF ~f64_le(F64Zero, lambda) THEN Err("LambdaTooSmall")
    ELSE Ok([NoDescriptor EXCEPT !.lambda_inverse = f64_recip(lambda)])

Exp_new(lambda) == unwrap(Exp_try_new(lambda))

\* NormalImpl::try_new
Normal_try_new(mean, std_dev) ==
    IF ~is_finite(std_dev) THEN Err("BadVariance")
    ELSE Ok([NoDescriptor EXCEPT !.mean = mean, !.std_dev = std_dev])

Normal_new(mean, std_dev) == unwrap(Normal_try_new(mean, std_dev))

\* dispersion parameters: 0.0, -0.0, 1.0, -1.0, 0.5, 2.0, -2.0, the largest
\* and least powers of two of either sign, the infinities, and a NaN of
\* either sign
Dispersions ==
    { from_bits(F64, e, ZeroMant64) :
        e \in {0, 1023, 1022, 1024, 1, 2045, 2046, 2047,
               2048, 3071, 3072, 2049, 4094, 4095} }
    \cup { from_bits(F64, 0, <<0, 0, 0, 1>>), from_bits(F64, 2048, <<0, 0, 0, 1>>),
           from_bits(F64, 0, <<8, 0, 0, 0>>), from_bits(F64, 0, <<4, 0, 0, 0>>),
           from_bits(F64, 2047, <<8, 0, 0, 0>>), from_bits(F64, 4095, <<0, 0, 0, 1>>) }

\* means: 0.0, -1.0, infinity and a NaN
Means ==
    { F64Zero, from_bits(F64, 3071, ZeroMant64), F64Inf,
      from_bits(F64, 2047, <<8, 0, 0, 0>>) }

IdleDistr ==
    /\ dcall = "none"
    /\ dparam = F64Zero
    /\ dmean = F64Zero
    /\ dres = [kind |-> "none", err |-> "", value |-> NoDescriptor]

----------------------------------------------------------------------------
(* ChaCha20 (rng/chacha20.rs): the cipher state, the buffered block and a  *)
(* u32 word index.  The cipher state is its key, as the counters at which  *)
(* it jumped, and its block counter; a block is known by the state it was  *)
(* generated from.  A call returns [rng, out, panicked], out being the     *)
(* value returned or the buffer as left.                                   *)

BLOCK_WORDS == 16

BLOCK_SIZE == 16 * 4

\* chacha20_block(&mut state, &mut ws): ws is the block of the state as
\* found, then increment_counter(state)
chacha20_block(state) ==
    [ws |-> state, state |-> [state EXCEPT !.counter = @ + 1]]

\* random: [0; BLOCK_WORDS]
ZeroedBlock == [key |-> <<>>, counter |-> -1]

\* ChaCha20 { state, random: [0; BLOCK_WORDS], index: !0 }
ChaCha20_new == [state |-> [key |-> <<>>, counter |-> 0], random |-> ZeroedBlock, index |-> NOT0]

\* an element of the buffer that no store has reached
Unwritten == <<ZeroedBlock, -1>>

unwritten(n) == [k \in 1 .. n |-> Unwritten]

\* words k .. k + n - 1 of a block
random_words(random, k, n) == [m \in 1 .. n |-> BlockWord(random, k + m - 1)]

\* ChaCha20::next_u32
ChaCha20_next_u32(g) ==
    LET refill == U32Gt(g.index, BLOCK_WORDS - 1)
        b      == chacha20_block(g.state)
        index  == IF refill THEN 0 ELSE g.index[2]
        random == IF refill THEN b.ws ELSE g.random
    IN  [rng      |-> [state  |-> IF refill THEN b.state ELSE g.state,
                       random |-> random,
                       index  |-> U32(index + 1)],
         out      |-> <<BlockWord(random, index)>>,
         panicked |-> FALSE]

\* ChaCha20::next_u64
ChaCha20_next_u64(g) ==
    LET refill == U32Gt(g.index, BLOCK_WORDS - 2)
        b      == chacha20_block(g.state)
        index  == IF refill THEN 0 ELSE g.index[2]
        random == IF refill THEN b.ws ELSE g.random
    IN  [rng      |-> [state  |-> IF refill THEN b.state ELSE g.state,
                       random |-> random,
                       index  |-> U32(index + 2)],
         out      |-> <<BlockWord(random, index), BlockWord(random, index + 1)>>,
         panicked |-> FALSE]

\* fill_u32, `while buffer.len() >= BLOCK_WORDS`: the state and the words
\* written after n words were still to fill
RECURSIVE ChaCha20_fill_u32_direct(_, _, _)
ChaCha20_fill_u32_direct(state, out, n) ==
    IF n < BLOCK_WORDS THEN [state |-> state, out |-> out]
    ELSE ChaCha20_fill_u32_direct(chacha20_block(state).state,
                                  out \o random_words(chacha20_block(state).ws, 0, BLOCK_WORDS),
                                  n - BLOCK_WORDS)

\* fill_u32, `while buffer.len() > 0 { buffer[0] = self.random[index];
\* index += 1; }`: buffer is never advanced, so the loop stores into
\* buffer[0] until random[index] is out of bounds
RECURSIVE ChaCha20_fill_u32_rest(_, _, _)
ChaCha20_fill_u32_rest(random, index, first) ==
    IF index >= BLOCK_WORDS THEN [first |-> first, panicked |-> TRUE]
    ELSE ChaCha20_fill_u32_rest(random, index + 1, BlockWord(random, index))

\* ChaCha20::fill_u32 on a buffer of n words
ChaCha20_fill_u32(g, n) ==
    LET d         == ChaCha20_fill_u32_direct(g.state, <<>>, n)
        len       == n % BLOCK_WORDS
        max_index == BLOCK_WORDS - len
        refill    == U32Gt(g.index, max_index)
        b         == chacha20_block(d.state)
        index     == IF refill THEN 0 ELSE g.index[2]
        random    == IF refill THEN b.ws ELSE g.random
        rest      == ChaCha20_fill_u32_rest(random, index, Unwritten)
    IN  IF len = 0
        THEN [rng      |-> [state  |-> IF refill THEN b.state ELSE d.state,
                            random |-> random,
                            index  |-> U32(index)],
              out      |-> d.out,
              panicked |-> FALSE]
        ELSE [rng      |-> [state  |-> IF refill THEN b.state ELSE d.state,
                            random |-> random,
                            index  |-> g.index],
              out      |-> d.out \o <<rest.first>> \o unwritten(len - 1),
              panicked |-> rest.panicked]

\* fill_bytes, `while buffer.len() >= BLOCK_SIZE`
RECURSIVE ChaCha20_fill_bytes_direct(_, _, _)
ChaCha20_fill_bytes_direct(state, out, n) ==
    IF n < BLOCK_SIZE THEN [state |-> state, out |-> out]
    ELSE ChaCha20_fill_bytes_direct(chacha20_block(state).state,
                                    out \o random_bytes(chacha20_block(state).ws, 0, BLOCK_SIZE),
                                    n - BLOCK_SIZE)

\* ChaCha20::fill_bytes on a buffer of n bytes: `buffer[i] = src[i]` is out
\* of bounds at i = src.len()
ChaCha20_fill_bytes(g, n) ==
    LET d         == ChaCha20_fill_bytes_direct(g.state, <<>>, n)
        len       == n % BLOCK_SIZE
        max_index == (BLOCK_SIZE + 3 - len) \div 4
        refill    == U32Gt(g.index, max_index)
        b         == chacha20_block(d.state)
        index     == IF refill THEN 0 ELSE g.index[2]
        random    == IF refill THEN b.ws ELSE g.random
        srclen    == 4 * (BLOCK_WORDS - index)
        copied    == Min(len, srclen)
    IN  [rng      |-> [state  |-> IF refill THEN b.state ELSE d.state,
                       random |-> random,
                       index  |-> IF copied < len THEN g.index
                                  ELSE U32(index + ((len + 3) \div 4))],
         out      |-> d.out \o random_bytes(random, 4 * index, copied)
                            \o unwritten(len - copied),
         panicked |-> copied < len]

\* ChaCha20::jump: the key takes in a block, the buffered block is dropped
ChaCha20_jump(g) ==
    [g EXCEPT !.state = [key     |-> Append(g.state.key, g.state.counter),
                         counter |-> g.state.counter + 1],
              !.index = NOT0]

\* buffer lengths in words: none, one, the 12 key words of from_rng, a
\* block, and a block and a word
FillU32Lens == {0, 1, 12, BLOCK_WORDS, BLOCK_WORDS + 1}

\* buffer lengths in bytes: none, within a word, a word, across words, the
\* block less 3, a block, and across blocks
FillBytesLens == {0, 1, 3, 4, 5, BLOCK_SIZE - 3, BLOCK_SIZE, BLOCK_SIZE + 7}

NoCall == [op |-> "none", len |-> 0]

IdleChaCha20 ==
    /\ c20 = ChaCha20_new
    /\ c20out = <<>>
    /\ c20panic = FALSE
    /\ c20call = NoCall
    /\ c20n = 0

----------------------------------------------------------------------------
(* Random::single and Random::index (random.rs).  An item of the           *)
(* collection is known by its position, from 0.                            *)

\* usize: u32 with a 64-bit raw word on a 32-bit target, u64 on a 64-bit one
UsizeTargets == { [signed |-> FALSE, bits |-> b, large |-> LargeBits] : b \in {TyBits, LargeBits} }

\* UniformInt::constant(base, range)
UniformInt_constant(base, range) == [ok |-> TRUE, base |-> base, range |-> range]

None == [some |-> FALSE, item |-> 0]

Some(item) == [some |-> TRUE, item |-> item]

\* Iterator::nth on an iterator of n items, taken from 1
Iterator_nth_from_one(n, index) == IF index >= 1 /\ index <= n THEN Some(index - 1) ELSE None

\* Iterator::nth on an iterator of n items
Iterator_nth(n, index) == IF index < n THEN Some(index) ELSE None

\* `iter.nth(usize::min(len, index))`
single_exact(n, len, index) == Iterator_nth(n, Min(len, index))

\* 1.0 / denom for denom = 1.0, 2.0, .. 6.0, rounded to nearest
OneOver ==
    << [sign |-> 0, exp |-> 1023, mant |-> <<0, 0, 0, 0>>],
       [sign |-> 0, exp |-> 1022, mant |-> <<0, 0, 0, 0>>],
       [sign |-> 0, exp |-> 1021, mant |-> <<5, 21845, 21845, 21845>>],
       [sign |-> 0, exp |-> 1021, mant |-> <<0, 0, 0, 0>>],
       [sign |-> 0, exp |-> 1020, mant |-> <<9, 39321, 39321, 39322>>],
       [sign |-> 0, exp |-> 1020, mant |-> <<5, 21845, 21845, 21845>>] >>

\* Random::chance(p) on the raw words w and sd
Random_chance(prob, w, sd) == Bernoulli_sample(prob, w, sd)

\* one item of the reservoir loop: `if self.chance(1.0 / denom) { result =
\* Some(item) }`, denom being the item's position plus one
single_reservoir(result, pos, w, sd) ==
    IF Random_chance(OneOver[pos + 1], w, sd) THEN Some(pos) ELSE result

IdleSingle ==
    /\ stg = [signed |-> FALSE, bits |-> LargeBits, large |-> LargeBits]
    /\ sitems = 0
    /\ shint = "exact"
    /\ spc = "idle"
    /\ szone = 0
    /\ sraw = 0
    /\ sindex = 0
    /\ spos = 0
    /\ sresult = None
    /\ sdraws = 0

----------------------------------------------------------------------------
(* A BlockRngImpl under any calls of next_u32, next_u64, fill_bytes and    *)
(* jump (rng/block.rs).                                                    *)

\* buffer lengths that leave the cursor at, and 1, 3 and 7 bytes before,
\* the end of the block, and a run of two full blocks
CursorLens ==
    {1, 3, BlockBytes - 7, BlockBytes - 3, BlockBytes - 1, BlockBytes, BlockBytes + 1,
     2 * BlockBytes}

NoCursorCall == [op |-> "none", value |-> <<>>, gen |-> FALSE, pre |-> NOT0, reads |-> {}]

IdleCursor ==
    /\ cbe = FALSE
    /\ crng = new([stream |-> 0, counter |-> 0])
    /\ cmode = "any"
    /\ cn = 0
    /\ clast = NoCursorCall
    /\ cwords = 0
    /\ cstart = [stream |-> 0, counter |-> 0]
    /\ cseen = {}

----------------------------------------------------------------------------
(* The division of sample (distr/uniform/int.rs): the pass of the loop     *)
(* that executes `zone = <$large>::wrapping_sub(0, range) % range`.        *)

\* whether the pass with the raw word v reaches the division: range is not
\* 0, `lsw >= zone` failed and `zone == range` holds
sample_divides(t, d, z, v) ==
    LET range == RangeOf(t, d)
    IN  /\ range # 0
        /\ wmul(t, v, range).lsw < z
        /\ z = range

NoPass == [div |-> FALSE, lsw |-> 0]

IdleLazy ==
    /\ udivs = 0
    /\ utotal = 0
    /\ ucalls = 0
    /\ ulast = NoPass

----------------------------------------------------------------------------
(* The instantiations of impl_uniform_int: the raw word ($large, $method)  *)
(* and the wide multiplication each integer type samples with, in          *)
(* distr/uniform/int.rs and in distributions/uniform/int.rs.               *)

\* impl_uniform_int! { $ty, $unsigned, $large, $method, $wmul }: widths in bits
Impl(name, unsigned, large, method, wmulbits) ==
    [ty |-> name, unsigned |-> unsigned, large |-> large, method |-> method,
     wmul |-> wmulbits]

\* wmul32: `a as u64 * b as u64`; wmul64: `a as u128 * b as u128`
wmul32 == [operand |-> 32, full |-> 64]

wmul64 == [operand |-> 64, full |-> 128]

\* the instantiations of distr/uniform/int.rs on a target of the pointer width
impl_uniform_int_distr(pointer_width) ==
    { Impl("i8", 8, 32, "next_u32", wmul32),
      Impl("u8", 8, 32, "next_u32", wmul32),
      Impl("i16", 16, 32, "next_u32", wmul32),
      Impl("u16", 16, 32, "next_u32", wmul32),
      Impl("i32", 32, 64, "next_u64", wmul64),
      Impl("u32", 32, 64, "next_u64", wmul64),
      Impl("i64", 64, 64, "next_u64", wmul64),
      Impl("u64", 64, 64, "next_u64", wmul64),
      Impl("isize", pointer_width, 64, "next_u64", wmul64),
      Impl("usize", pointer_width, 64, "next_u64", wmul64) }

\* WideMul::wmul chosen by the type of the raw word
WideMul(method) == IF method = "next_u32" THEN wmul32 ELSE wmul64

\* the instantiations of distributions/uniform/int.rs
impl_uniform_int_distributions(pointer_width) ==
    { Impl("i8", 8, 32, "next_u32", WideMul("next_u32")),
      Impl("u8", 8, 32, "next_u32", WideMul("next_u32")),
      Impl("i16", 16, 32, "next_u32", WideMul("next_u32")),
      Impl("u16", 16, 32, "next_u32", WideMul("next_u32")),
      Impl("i32", 32, 32, "next_u32", WideMul("next_u32")),
      Impl("u32", 32, 32, "next_u32", WideMul("next_u32")),
      Impl("i64", 64, 64, "next_u64", WideMul("next_u64")),
      Impl("u64", 64, 64, "next_u64", WideMul("next_u64")),
      Impl("isize", pointer_width, 64, "next_u64", WideMul("next_u64")),
      Impl("usize", pointer_width, 64, "next_u64", WideMul("next_u64")) }

\* bits of the word a generator method returns
MethodBits(method) == IF method = "next_u32" THEN 32 ELSE 64

PointerWidths == {32, 64}

IdleWidth ==
    /\ wfile = "distr"
    /\ wptr = 64
    /\ wimpl = Impl("u8", 8, 32, "next_u32", wmul32)
    /\ wpc = "new"
    /\ wpasses = 0
    /\ wbits = 0
    /\ wfull = 0

----------------------------------------------------------------------------
(* The rejection thresholds of distributions/uniform/int.rs: the tables    *)
(* for ranges up to 64 and the division for the others, and the dice of    *)
(* distributions/dice.rs.  A range is a number below 2^15 here; the words  *)
(* it is subtracted from are limbs of 16 bits, most significant first.     *)

\* the limbs of `0.wrapping_sub(range)` on a word of n limbs
wrapping_sub_from_zero(n, range) ==
    IF range = 0 THEN [k \in 1 .. n |-> 0]
    ELSE [k \in 1 .. n |-> IF k = n THEN Limb - range ELSE Limb - 1]

\* limbs % range, most significant limb first
RECURSIVE limbs_rem(_, _, _, _)
limbs_rem(limbs, k, acc, range) ==
    IF k > Len(limbs) THEN acc
    ELSE limbs_rem(limbs, k + 1, ((acc * (Limb % range)) + limbs[k]) % range, range)

REJECT32 ==
    <<0, 0, 1, 0, 1, 4, 4, 0,
      4, 6, 4, 4, 9, 4, 1, 0,
      1, 4, 6, 16, 4, 4, 12, 16,
      21, 22, 22, 4, 16, 16, 4, 0,
      4, 18, 11, 4, 7, 6, 22, 16,
      37, 4, 16, 4, 31, 12, 42, 16,
      39, 46, 1, 48, 42, 22, 26, 32,
      25, 16, 51, 16, 57, 4, 4, 0>>

REJECT64 ==
    <<0, 0, 1, 0, 1, 4, 2, 0,
      7, 6, 5, 4, 3, 2, 1, 0,
      1, 16, 17, 16, 16, 16, 6, 16,
      16, 16, 25, 16, 24, 16, 16, 0,
      16, 18, 16, 16, 12, 36, 16, 16,
      16, 16, 41, 16, 16, 6, 25, 16,
      2, 16, 1, 16, 15, 52, 16, 16,
      55, 24, 5, 16, 16, 16, 16, 0>>

\* ints_to_reject32 reading the table of the 64-bit words
ints_to_reject32_other_table(range) ==
    IF range = 0 THEN 0
    ELSE IF range <= Len(REJECT64) THEN REJECT64[(range - 1) + 1]
    ELSE limbs_rem(wrapping_sub_from_zero(2, range), 1, 0, range)

\* the table is 0-based in the source
ints_to_reject32(range) ==
    IF range = 0 THEN 0
    ELSE IF range <= Len(REJECT32) THEN REJECT32[(range - 1) + 1]
    ELSE limbs_rem(wrapping_sub_from_zero(2, range), 1, 0, range)

ints_to_reject64(range) ==
    IF range = 0 THEN 0
    ELSE IF range <= Len(REJECT64) THEN REJECT64[(range - 1) + 1]
    ELSE limbs_rem(wrapping_sub_from_zero(4, range), 1, 0, range)

\* UniformInt::<u8>::constant(base, range, reject)
UniformInt_u8_constant(base, range, reject) ==
    [base |-> base, range |-> range, reject |-> reject]

\* UniformInt::<u8>::new_inclusive(low, high), low <= high
UniformInt_u8_new_inclusive(lo, hi) ==
    LET range == ((hi - lo) + 1) % 256
    IN  [base |-> lo, range |-> range, reject |-> ints_to_reject32(range) % 256]

Dice_new(n) == UniformInt_u8_new_inclusive(1, n)

\* Dice::D4, D6, D8, D10, D20
DiceConstants ==
    [n \in {4, 6, 8, 10, 20} |->
        CASE n = 4 -> UniformInt_u8_constant(1, 4, 0)
          [] n = 6 -> UniformInt_u8_constant(1, 6, 4)
          [] n = 8 -> UniformInt_u8_constant(1, 8, 0)
          [] n = 10 -> UniformInt_u8_constant(1, 10, 6)
          [] n = 20 -> UniformInt_u8_constant(1, 20, 16)]

NoQuery == [fn |-> "none", arg |-> 0]

IdleReject ==
    /\ rquery = NoQuery
    /\ rres = 0
    /\ rdone = FALSE

----------------------------------------------------------------------------
(* SplitMix64 as a generator (rng/splitmix64.rs): next_u32, next_u64 and   *)
(* jump on the one state word.                                             *)

SplitMix64_next_u64(x) == splitmix_next(x)

SplitMix64_next_u32(x) ==
    [state |-> splitmix_next(x).state, value |-> High32(splitmix_next(x).value)]

\* jump adding GOLDEN_GAMMA << 32
splitmix_jump_32(x) == u64_add(x, u64_shl(GOLDEN_GAMMA, 32))

\* splitmix64.rs jump(x): `*x = x.wrapping_add(GOLDEN_GAMMA << 40)`
splitmix_jump(x) == u64_add(x, u64_shl(GOLDEN_GAMMA, 40))

IdleSplitMix ==
    /\ mseed = U64Zero
    /\ mstate = U64Zero
    /\ mnexts = 0
    /\ mjumps = 0
    /\ mlast = "none"

----------------------------------------------------------------------------
(* Xoshiro256: jump, the float methods and fill_bytes                      *)
(* (rng/xoshiro256.rs, rng/util.rs).                                       *)

JUMP ==
    <<<<6158, 50899, 15613, 2746>>, <<54694, 4710, 61641, 14636>>,
      <<43352, 9752, 57407, 51626>>, <<14763, 56389, 10673, 26140>>>>

\* (x & (1 << b)) != 0
u64_bit(x, b) == (x[4 - (b \div 16)] \div (2 ^ (b % 16))) % 2 = 1

ZeroState == <<U64Zero, U64Zero, U64Zero, U64Zero>>

\* the body of `for b in 0..64` on <<the accumulators s0..s3, s>>
jump_step(as, w, b) ==
    <<IF u64_bit(JUMP[w], b)
      THEN <<u64_xor(as[1][1], as[2][1]), u64_xor(as[1][2], as[2][2]),
             u64_xor(as[1][3], as[2][3]), u64_xor(as[1][4], as[2][4])>>
      ELSE as[1],
      advance(as[2])>>

\* the iterations lo .. hi - 1 of the two nested loops, numbered 64 * i + b,
\* evaluated by halving the range
RECURSIVE jump_bits(_, _, _)
jump_bits(as, lo, hi) ==
    IF hi - lo = 1 THEN jump_step(as, (lo \div 64) + 1, lo % 64)
    ELSE Then(jump_bits(as, lo, (lo + hi) \div 2),
              LAMBDA y : jump_bits(y, (lo + hi) \div 2, hi))

\* jump(s): the state is replaced by the accumulators
xoshiro_jump(s) == jump_bits(<<ZeroState, s>>, 0, 256)[1]

\* Xoshiro256::next_f32: the state after; the float comes from next_plus
Xoshiro256_next_f32(s) ==
    [state |-> next_plus(s).state, value |-> High32(next_plus(s).result)]

\* Xoshiro256::next_f64
Xoshiro256_next_f64(s) ==
    [state |-> next_plus(s).state, value |-> next_plus(s).result]

\* value.to_le_bytes() of a u64
u64_to_le_bytes(v) ==
    <<v[4] % 256, v[4] \div 256, v[3] % 256, v[3] \div 256,
      v[2] % 256, v[2] \div 256, v[1] % 256, v[1] \div 256>>

\* (value as u32).to_le_bytes()
u32_to_le_bytes_of(v) == <<v[4] % 256, v[4] \div 256, v[3] % 256, v[3] \div 256>>

\* rng_fill_bytes on a Xoshiro256: the `while len >= 8` loop
RECURSIVE Xoshiro256_fill_words(_, _, _)
Xoshiro256_fill_words(s, out, len) ==
    IF len >= 8
    THEN Then(Xoshiro256_next_u64(s), LAMBDA nx :
              Xoshiro256_fill_words(nx.state, out \o u64_to_le_bytes(nx.value), len - 8))
    ELSE [state |-> s, out |-> out, len |-> len]

\* the tail writing value, not value >> 32, after the u32 write
Xoshiro256_fill_tail_unshifted(s, out, len) ==
    LET nx   == Xoshiro256_next_u64(s)
        v0   == nx.value
        w4   == len >= 4
        out4 == IF w4 THEN out \o u32_to_le_bytes_of(v0) ELSE out
        len4 == IF w4 THEN len - 4 ELSE len
        w2   == len4 >= 2
        out2 == IF w2 THEN out4 \o <<u64_shr(v0, 0)[4] % 256, u64_shr(v0, 8)[4] % 256>>
                ELSE out4
        len2 == IF w2 THEN len4 - 2 ELSE len4
        v2   == IF w2 THEN u64_shr(v0, 16) ELSE v0
    IN  [state |-> nx.state,
         out |-> IF len2 >= 1 THEN out2 \o <<v2[4] % 256>> ELSE out2]

\* the `if len > 0` tail: a u32 write, a u16 write, a u8 write
Xoshiro256_fill_tail(s, out, len) ==
    LET nx   == Xoshiro256_next_u64(s)
        v0   == nx.value
        w4   == len >= 4
        out4 == IF w4 THEN out \o u32_to_le_bytes_of(v0) ELSE out
        len4 == IF w4 THEN len - 4 ELSE len
        v4   == IF w4 THEN u64_shr(v0, 32) ELSE v0
        w2   == len4 >= 2
        out2 == IF w2 THEN out4 \o <<u64_shr(v4, 0)[4] % 256, u64_shr(v4, 8)[4] % 256>>
                ELSE out4
        len2 == IF w2 THEN len4 - 2 ELSE len4
        v2   == IF w2 THEN u64_shr(v4, 16) ELSE v4
    IN  [state |-> nx.state,
         out |-> IF len2 >= 1 THEN out2 \o <<v2[4] % 256>> ELSE out2]

\* Xoshiro256::fill_bytes(&mut buf[..n]): clone, rng_fill_bytes, `*self = rng`
Xoshiro256_fill_bytes(s, n) ==
    LET w == Xoshiro256_fill_words(s, <<>>, n)
    IN  IF w.len > 0 THEN Xoshiro256_fill_tail(w.state, w.out, w.len)
        ELSE [state |-> w.state, out |-> w.out]

----------------------------------------------------------------------------
(* The ziggurat sampler (distr/ziggurat.rs) as StandardNormal and Exp1     *)
(* call it (distr/normal.rs, distr/exp.rs).  The tables x_tab and f_tab    *)
(* and the density are floating point; the outcome of each comparison is   *)
(* an input of the step that makes it.                                     *)

\* let i = bits as usize & 0xff
layer_index(bits) == bits[4] % 256

\* bits >> 12 | (1023 + exp) << 52: the mantissa field of the float
into_float_mantissa(bits) == u64_shr(bits, 12)

\* u < 0.0 for u = into_float_with_exponent(bits, 1) - 3.0: the float is in
\* [2, 3) when the top mantissa bit is clear
u_negative(bits) == bits[1] < Limb \div 2

\* the two returns after the draw taken without the `if i == 0` return
after_test_x_without_zero_case(below, idx) ==
    IF below THEN "return_x" ELSE "density"

\* `if test_x < x_tab[i + 1] { return x; } if i == 0 { return zero_case(..) }`
after_test_x(below, idx) ==
    IF below THEN "return_x"
    ELSE IF idx = 0 THEN "zero_case"
    ELSE "density"

\* `if f_tab[i + 1] + (..) * rand.float01() < pdf(x) { return x; }`, else
\* the end of the loop body
after_density(accept) == IF accept THEN "return_x" ELSE "loop"

\* zero_case of StandardNormal loops `while -2.0 * y < x * x`, of Exp1 is
\* one expression
zero_case_again(symmetric, cond) == symmetric /\ cond

\* the float01() calls of one pass of zero_case
zero_case_draws(symmetric) ==
    IF symmetric THEN <<"float01", "float01">> ELSE <<"float01">>

IdleZiggurat ==
    /\ zsym = FALSE
    /\ zpc = "idle"
    /\ zbits = U64Zero
    /\ zi = 0
    /\ zmant = U64Zero
    /\ zlog = <<>>
    /\ zattempts = 0
    /\ ztail = 0
    /\ zret = "none"

----------------------------------------------------------------------------
(* check_fill_bytes (rng/tests.rs): the master generator is advanced, then *)
(* for each length a clone of it fills the first i bytes of a zeroed       *)
(* 256-byte buffer.  The loop is run through i = 256, the whole buffer.    *)

\* `[0u8; 256]`
BufLen == 256

zeroes == [k \in 1 .. BufLen |-> 0]

Kinds == {"block", "mix"}

\* Rng::next_u32 / next_u64 / fill_bytes / jump of the generator under test
RngNextU32(k, be, rng) == IF k = "block" THEN next_u32(be, rng) ELSE mix_next_u32(rng)

RngNextU64(k, be, rng) ==
    IF k = "block" THEN next_u64(be, rng)
    ELSE LET nx == mix_next_u64(rng.state)
         IN  [rng |-> [rng EXCEPT !.state = nx.state],
              value |-> [j \in 1 .. WordBytes |-> nx.value[j - 1]]]

RngFillBytes(k, be, rng, dst, n) ==
    IF k = "block" THEN fill_bytes(be, rng, dst, n) ELSE rng_fill_bytes(rng, dst, n)

RngJump(k, rng) == IF k = "block" THEN jump(rng) ELSE mix_jump(rng)

InitBlock ==
    /\ bigEndian \in BOOLEAN
    /\ kind \in Kinds
    /\ master = new([stream |-> 0, counter |-> 0])
    /\ rand = master
    /\ i = 0
    /\ buf = zeroes
    /\ old = zeroes
    /\ value = <<>>
    /\ calls = 0
    /\ IdleUniform
    /\ IdleFloat
    /\ IdleChaCha
    /\ IdleStream
    /\ IdleXoshiro
    /\ IdleDistr
    /\ IdleChaCha20
    /\ IdleSingle
    /\ IdleCursor
    /\ IdleLazy
    /\ IdleWidth
    /\ IdleReject
    /\ IdleSplitMix
    /\ IdleZiggurat

\* the master may be advanced while the check loop has not started
Advance(rng, v) ==
    /\ i = 0
    /\ calls < MaxCalls
    /\ calls' = calls + 1
    /\ master' = rng
    /\ rand' = rng
    /\ value' = v
    /\ UNCHANGED <<bigEndian, kind, i, buf, old>>
    /\ UNCHANGED notBlock

NextU32 == LET r == RngNextU32(kind, bigEndian, master) IN Advance(r.rng, r.value)

NextU64 == LET r == RngNextU64(kind, bigEndian, master) IN Advance(r.rng, r.value)

MasterLens == (1 .. MaxFill) \cup (BlockBytes - MaxFill .. BlockBytes + MaxFill)

FillBytes ==
    \E n \in MasterLens :
        LET dst == [k \in 1 .. n |-> 0]
            r   == RngFillBytes(kind, bigEndian, master, dst, n)
        IN  Advance(r.rng, <<>>)

Jump == Advance(RngJump(kind, master), <<>>)

\* one iteration of `for i in 1..`: clone, fill buf[..i], keep the last buf
CheckFillBytes ==
    /\ i < BufLen
    /\ LET r == RngFillBytes(kind, bigEndian, master, zeroes, i + 1)
       IN  /\ rand' = r.rng
           /\ buf' = r.dst
    /\ old' = buf
    /\ i' = i + 1
    /\ value' = <<>>
    /\ UNCHANGED <<bigEndian, kind, master, calls>>
    /\ UNCHANGED notBlock

NextBlock == NextU32 \/ NextU64 \/ FillBytes \/ Jump \/ CheckFillBytes

SpecBlock == InitBlock /\ [][NextBlock]_vars

----------------------------------------------------------------------------
(* Properties of fill_bytes.                                               *)

\* b1 and b2 are bytes of the same generated block (or word)
SameUnit(b1, b2) ==
    IF kind = "block" THEN b1 \div BlockBytes = b2 \div BlockBytes
    ELSE b1 \div WordBytes = b2 \div WordBytes

\* C1: fill_bytes on the first i bytes of the buffer writes every byte below
\* i with a generated byte and leaves every byte from i on as it was (zero).
C1_FillWritesExactlyPrefix ==
    i > 0 => \A k \in 1 .. BufLen :
                 IF k <= i THEN buf[k] # 0 ELSE buf[k] = zeroes[k]

\* a short fill that was served across a refill of the buffered block
C1_Witness ==
    /\ kind = "block"
    /\ i = 100
    /\ U32MinUsize(master.index, BlockBytes) = BlockBytes - 1
    /\ rand.state.counter = master.state.counter + 1
    /\ buf[100] # 0
    /\ buf[101] = 0

\* the first n bytes of the two buffers are the same
AgreeOn(n) == \A k \in 1 .. n : buf[k] = old[k]

\* the master has no unread byte in its buffered block
Exhausted(rng) == U32MinUsize(rng.index, BlockBytes) = BlockBytes

\* C2 as claimed: for every length 2..256 the clone that filled i - 1 bytes
\* and the clone that filled i bytes agree on their first i - 1 bytes.
C2_ConsistentUpToBlockSize ==
    (kind = "block" /\ i >= 2) => AgreeOn(i - 1)

\* C2 amended: they agree for every length below the block size, and at the
\* block size when the master has no unread buffered byte.
C2_ConsistentBelowBlockSize ==
    (kind = "block" /\ i >= 2 /\ (i < BlockBytes \/ Exhausted(master)))
        => AgreeOn(i - 1)

\* both clones took bytes from the buffered block and from a fresh one
C2_Witness ==
    /\ kind = "block"
    /\ i = 200
    /\ U32MinUsize(master.index, BlockBytes) = BlockBytes - 1
    /\ rand.state.counter = master.state.counter + 1
    /\ buf[199] = old[199]
    /\ buf[199] # 0

\* C3: on every host the bytes handed out are the little-endian packing of
\* the generated words: within one block (or word) consecutive output bytes
\* are consecutive bytes of that packing.
C3_LittleEndianOnEveryHost ==
    /\ \A k \in 1 .. i - 1 :
           SameUnit(buf[k], buf[k + 1]) => buf[k + 1] = buf[k] + 1
    /\ \A k \in 1 .. Len(value) - 1 : value[k + 1] = value[k] + 1

----------------------------------------------------------------------------
(* The uniform integer sampler as a state machine: construct, then sample; *)
(* every pass of the rejection loop is one step that draws one raw word.   *)

IdleBlock ==
    /\ bigEndian = FALSE
    /\ kind = "block"
    /\ master = new([stream |-> 0, counter |-> 0])
    /\ rand = master
    /\ i = 0
    /\ buf = zeroes
    /\ old = zeroes
    /\ value = <<>>
    /\ calls = 0

InitUniform ==
    /\ IdleBlock
    /\ IdleFloat
    /\ IdleChaCha
    /\ IdleStream
    /\ IdleXoshiro
    /\ IdleDistr
    /\ IdleChaCha20
    /\ IdleSingle
    /\ IdleCursor
    /\ IdleLazy
    /\ IdleWidth
    /\ IdleReject
    /\ IdleSplitMix
    /\ IdleZiggurat
    /\ ty \in Instantiations
    /\ low = 0
    /\ high = 0
    /\ inclusive = FALSE
    /\ distr = EmptyRange
    /\ zone = 0
    /\ raw = 0
    /\ sampled = NoSample
    /\ upc = "new"
    /\ draws = 0

Construct(incl, lo, hi, d) ==
    /\ upc = "new"
    /\ low' = lo
    /\ high' = hi
    /\ inclusive' = incl
    /\ distr' = d
    /\ upc' = IF d.ok THEN "ready" ELSE "err"
    /\ UNCHANGED <<ty, zone, raw, sampled, draws>>
    /\ UNCHANGED notUniform

TryNew ==
    \E lo \in TyValues(ty), hi \in TyValues(ty) :
        Construct(FALSE, lo, hi, try_new(ty, lo, hi))

TryNewInclusive ==
    \E lo \in TyValues(ty), hi \in TyValues(ty) :
        Construct(TRUE, lo, hi, try_new_inclusive(ty, lo, hi))

\* entry of sample: `let mut zone = range;`; no word is drawn yet
SampleBegin ==
    /\ upc \in {"ready", "done"}
    /\ zone' = RangeOf(ty, distr)
    /\ raw' = 0
    /\ sampled' = NoSample
    /\ draws' = 0
    /\ upc' = "loop"
    /\ UNCHANGED <<ty, low, high, inclusive, distr>>
    /\ UNCHANGED notUniform

\* one pass of the loop: `let value = rand.$method();` and the tests
SampleDraw ==
    /\ upc = "loop"
    /\ draws < MaxDraws
    /\ \E v \in RawWords(ty) :
           LET r == sample_iter(ty, distr, zone, v)
           IN  /\ raw' = v
               /\ zone' = r.zone
               /\ sampled' = IF r.done THEN [some |-> TRUE, v |-> r.result]
                             ELSE NoSample
               /\ upc' = IF r.done THEN "done" ELSE "loop"
    /\ draws' = draws + 1
    /\ UNCHANGED <<ty, low, high, inclusive, distr>>
    /\ UNCHANGED notUniform

NextUniform == TryNew \/ TryNewInclusive \/ SampleBegin \/ SampleDraw

SpecUniform == InitUniform /\ [][NextUniform]_vars

\* C4: every value sample returns lies in [low, high), resp. [low, high].
C4_SampleWithinBounds ==
    sampled.some =>
        /\ low <= sampled.v
        /\ IF inclusive THEN sampled.v <= high ELSE sampled.v < high

\* a sample from a signed range whose size overflows the signed type
C4_Witness ==
    /\ ty.signed
    /\ ty.bits < ty.large
    /\ high - low >= 2 ^ (ty.bits - 1)
    /\ sampled.some
    /\ sampled.v > 0
    /\ draws > 1

\* the raw words that make the loop break with base + k
AcceptedAs(k) ==
    { v \in RawWords(ty) :
        LET r == sample_iter(ty, distr, zone, v)
        IN  r.done /\ r.result = wrapping_add(ty, distr.base, k) }

Rejected ==
    { v \in RawWords(ty) : ~sample_iter(ty, distr, zone, v).done }

\* C5: for a range r >= 1, each of the r values is produced by exactly
\* floor(2^W / r) raw words, exactly 2^W mod r raw words are rejected, and an
\* accepted word v yields base + the high half of v * r.
C5_ExactlyUnbiased ==
    (upc = "loop" /\ RangeOf(ty, distr) >= 1) =>
        LET r == RangeOf(ty, distr)
        IN  /\ \A k \in 0 .. r - 1 :
                   Cardinality(AcceptedAs(k)) = (2 ^ ty.large) \div r
            /\ Cardinality(Rejected) = (2 ^ ty.large) % r
            /\ \A v \in RawWords(ty) :
                   LET o == sample_iter(ty, distr, zone, v)
                   IN  o.done => o.result =
                           wrapping_add(ty, distr.base,
                                        (v * r) \div (2 ^ ty.large))

\* inside the loop after a rejection, for a range that does not divide 2^W
C5_Witness ==
    /\ upc = "loop"
    /\ draws = 1
    /\ RangeOf(ty, distr) = 3
    /\ zone = (2 ^ ty.large) % 3
    /\ zone # 0

\* the number of values of the type in the interval
CountOf == IF inclusive THEN high - low + 1 ELSE high - low

\* C6: try_new fails exactly when low >= high, try_new_inclusive exactly
\* when low > high; otherwise base = low and range = the number of values in
\* the interval modulo 2^bits.
C6_ConstructorContract ==
    upc # "new" =>
        /\ distr.ok <=> (IF inclusive THEN low <= high ELSE low < high)
        /\ (upc = "err") <=> ~distr.ok
        /\ distr.ok => /\ distr.base = low
                       /\ AsUnsigned(ty, distr.range) = CountOf % (2 ^ ty.bits)

\* the full inclusive range of a signed type, stored as range = 0
C6_Witness ==
    /\ upc = "ready"
    /\ ty.signed
    /\ inclusive
    /\ low = TyMin(ty)
    /\ high = TyMax(ty)
    /\ distr.ok
    /\ distr.range = 0

----------------------------------------------------------------------------
(* Float01 and Bernoulli as a state machine: every sample call draws its   *)
(* raw words and returns.  A run samples Float01 directly, or builds one   *)
(* Bernoulli and samples it.                                               *)

InitFloat ==
    /\ IdleBlock
    /\ IdleUniform
    /\ IdleFloat
    /\ IdleChaCha
    /\ IdleStream
    /\ IdleXoshiro
    /\ IdleDistr
    /\ IdleChaCha20
    /\ IdleSingle
    /\ IdleCursor
    /\ IdleLazy
    /\ IdleWidth
    /\ IdleReject
    /\ IdleSplitMix
    /\ IdleZiggurat

Float01Returns(f, w, sd) ==
    /\ fmt' = f
    /\ coin' = w
    /\ seed' = sd
    /\ float' = Float01_sample(f, w, sd)
    /\ fpc' = "sampled"

\* <Float01 as Distribution<f32>>::sample
SampleF32 ==
    /\ bpc = "new"
    /\ \E w \in CoinWords, sd \in Seeds32 : Float01Returns(F32, w, sd)
    /\ UNCHANGED <<p, outcome, bpc>>
    /\ UNCHANGED notFloat

\* <Float01 as Distribution<f64>>::sample
SampleF64 ==
    /\ bpc = "new"
    /\ \E w \in CoinWords, sd \in Seeds64 : Float01Returns(F64, w, sd)
    /\ UNCHANGED <<p, outcome, bpc>>
    /\ UNCHANGED notFloat

BernoulliNew ==
    /\ fpc = "new"
    /\ \E prob \in Probabilities : p' = prob
    /\ bpc' = "built"
    /\ UNCHANGED <<fmt, coin, seed, float, fpc, outcome>>
    /\ UNCHANGED notFloat

BernoulliSample ==
    /\ bpc # "new"
    /\ \E w \in CoinWords, sd \in Seeds64 :
           /\ Float01Returns(F64, w, sd)
           /\ outcome' = Bernoulli_sample(p, w, sd)
    /\ bpc' = "sampled"
    /\ UNCHANGED p
    /\ UNCHANGED notFloat

NextFloat == SampleF32 \/ SampleF64 \/ BernoulliNew \/ BernoulliSample

SpecFloat == InitFloat /\ [][NextFloat]_vars

\* a positive float below 1.0 that is not zero: sign 0 and either a normal
\* exponent below that of 1.0 or a subnormal with a mantissa bit set
StrictlyInUnit(f, x) ==
    /\ x.sign = 0
    /\ \/ x.exp >= 1 /\ x.exp < f.bias
       \/ x.exp = 0 /\ ~IsZeroMant(x.mant)

\* C7: Float01::sample returns a value strictly between 0.0 and 1.0: the
\* sign is 0 and the exponent field is 1022 (126) minus the leading zeros of
\* the first draw, within [958, 1022] ([62, 126]).
C7_Float01StrictlyInside ==
    fpc = "sampled" =>
        /\ float.sign = 0
        /\ float.exp = fmt.bias - 1 - leading_zeros(coin)
        /\ float.exp >= fmt.bias - 65
        /\ float.exp <= fmt.bias - 1
        /\ StrictlyInUnit(fmt, float)

\* both draws all zero: the smallest value the sampler can return
C7_Witness ==
    /\ fpc = "sampled"
    /\ fmt = F64
    /\ coin = ZeroMant64
    /\ seed = ZeroMant64
    /\ float.exp = 958
    /\ IsZeroMant(float.mant)

One == [sign |-> 0, exp |-> 1023, mant |-> ZeroMant64]

Zero == [sign |-> 0, exp |-> 0, mant |-> ZeroMant64]

\* C8: Bernoulli::new(p).sample is true whenever p >= 1.0 and false whenever
\* p <= 0.0, whatever the generator yields.
C8_BernoulliTrivial ==
    bpc = "sampled" =>
        /\ f64_le(One, p) => outcome = TRUE
        /\ f64_le(p, Zero) => outcome = FALSE

\* p = 1.0 against the largest float the sampler returns
C8_Witness ==
    /\ bpc = "sampled"
    /\ p = One
    /\ float.exp = 1022
    /\ float.mant = OnesMant64
    /\ outcome = TRUE

----------------------------------------------------------------------------
(* The ChaCha core as a state machine: a core is built for a round count,  *)
(* then block is called on it.                                             *)

InitChaCha ==
    /\ IdleBlock
    /\ IdleUniform
    /\ IdleFloat
    /\ IdleStream
    /\ IdleXoshiro
    /\ IdleDistr
    /\ IdleChaCha20
    /\ IdleSingle
    /\ IdleCursor
    /\ IdleLazy
    /\ IdleWidth
    /\ IdleReject
    /\ IdleSplitMix
    /\ IdleZiggurat
    /\ rounds \in RoundCounts
    /\ overflowChecks \in BOOLEAN
    /\ core = ChaChaCore_new(ZeroKey, U64Zero, U64Zero)
    /\ prev = ChaChaCore_new(ZeroKey, U64Zero, U64Zero)
    /\ ws = NoBlocks
    /\ cpc = "new"
    /\ gens = 0

\* ChaChaCore::new(seed, counter, stream)
CoreNew ==
    /\ cpc = "new"
    /\ \E sd \in Keys, counter \in Counters, stream \in Streams :
           /\ core' = ChaChaCore_new(sd, counter, stream)
           /\ prev' = ChaChaCore_new(sd, counter, stream)
    /\ cpc' = "built"
    /\ UNCHANGED <<rounds, overflowChecks, ws, gens>>
    /\ UNCHANGED notChaCha

\* chacha_block(&mut state, &mut ws)
Block ==
    /\ cpc \in {"built", "done"}
    /\ gens < MaxGenerate
    /\ LET r == block(rounds, overflowChecks, core)
       IN  /\ ws' = r.ws
           /\ core' = r.state
           /\ cpc' = IF r.panicked THEN "panicked" ELSE "done"
    /\ prev' = core
    /\ gens' = gens + 1
    /\ UNCHANGED <<rounds, overflowChecks>>
    /\ UNCHANGED notChaCha

NextChaCha == CoreNew \/ Block

SpecChaCha == InitChaCha /\ [][NextChaCha]_vars

\* C9: with 20 rounds, the all-zero key, counter 0 and stream 0, the first
\* block generated is the published vector 0xade0b876, 0x903df1a0, ...
C9_ZeroTestVector ==
    (/\ cpc \in {"done", "panicked"}
     /\ rounds = 20
     /\ prev = ChaChaCore_new(ZeroKey, U64Zero, U64Zero)) => ws[1] = ZeroVector

C9_Witness ==
    /\ cpc = "done"
    /\ rounds = 20
    /\ prev = ChaChaCore_new(ZeroKey, U64Zero, U64Zero)
    /\ ws[1][1] = <<44512, 47222>>
    /\ ws[1][16] = <<34405, 61106>>

\* the four blocks are those of the single-block transform at counters
\* c, c + 1, c + 2, c + 3 (mod 2^64)
FourSingles ==
    \A k \in 1 .. 4 : ws[k] = scalar_block(state_words(add_counter(prev, k - 1)))

\* C10: one call of the four-block generate equals four single-block
\* generations, and the call completes with the state (key, (c + 4) mod
\* 2^64, stream), for every c, those within 4 of 2^64 included.
C10_FourBlocksEveryCounter ==
    cpc \in {"done", "panicked"} =>
        /\ rounds = 20 => FourSingles
        /\ cpc = "done"
        /\ core = add_counter(prev, 4)


----------------------------------------------------------------------------
(* The ChaCha<N> generator under calls of next_u32, next_u64, fill_bytes   *)
(* and jump, and Random::split (random.rs), which clones the generator and *)
(* makes the original jump.                                                *)

InitStream ==
    /\ IdleBlock
    /\ IdleUniform
    /\ IdleFloat
    /\ IdleChaCha
    /\ IdleXoshiro
    /\ IdleDistr
    /\ IdleChaCha20
    /\ IdleSingle
    /\ IdleCursor
    /\ IdleLazy
    /\ IdleWidth
    /\ IdleReject
    /\ IdleSplitMix
    /\ IdleZiggurat
    /\ sa \in { ChaCha_new(st) : st \in StreamStates }
    /\ sb = ChaCha_new(<<>>)
    /\ isSplit = FALSE
    /\ usedA = {}
    /\ usedB = {}
    /\ sout = <<>>
    /\ jumped = NotJumped
    /\ sops = 0

\* a call on copy c that returned r
StreamCall(c, r) ==
    /\ sops < MaxStreamOps
    /\ c = "a" \/ isSplit
    /\ sa' = IF c = "a" THEN r.rng ELSE sa
    /\ sb' = IF c = "b" THEN r.rng ELSE sb
    /\ usedA' = IF isSplit /\ c = "a" THEN usedA \cup r.gens ELSE usedA
    /\ usedB' = IF isSplit /\ c = "b" THEN usedB \cup r.gens ELSE usedB
    /\ sout' = r.out
    /\ sops' = sops + 1
    /\ UNCHANGED <<isSplit, jumped>>
    /\ UNCHANGED notStream

Copy(c) == IF c = "a" THEN sa ELSE sb

StreamNextU32 == \E c \in {"a", "b"} : StreamCall(c, ChaCha_next_u32(Copy(c)))

StreamNextU64 == \E c \in {"a", "b"} : StreamCall(c, ChaCha_next_u64(Copy(c)))

StreamFillBytes ==
    \E c \in {"a", "b"}, n \in StreamFillLens :
        StreamCall(c, ChaCha_fill_bytes(Copy(c), n))

\* Random::jump before any split
StreamJump ==
    /\ sops < MaxStreamOps
    /\ ~isSplit
    /\ sa' = ChaCha_jump(sa)
    /\ jumped' = [some |-> TRUE, pre |-> sa, post |-> sa']
    /\ sout' = <<>>
    /\ sops' = sops + 1
    /\ UNCHANGED <<sb, isSplit, usedA, usedB>>
    /\ UNCHANGED notStream

\* Random::split: the clone is returned, the instance jumps
StreamSplit ==
    /\ sops < MaxStreamOps
    /\ ~isSplit
    /\ sb' = ChaCha_jump(sa)
    /\ jumped' = [some |-> TRUE, pre |-> sa, post |-> sb']
    /\ isSplit' = TRUE
    /\ sout' = <<>>
    /\ sops' = sops + 1
    /\ UNCHANGED <<sa, usedA, usedB>>
    /\ UNCHANGED notStream

NextStream ==
    \/ StreamNextU32
    \/ StreamNextU64
    \/ StreamFillBytes
    \/ StreamJump
    \/ StreamSplit

SpecStream == InitStream /\ [][NextStream]_vars

\* the value of the words lo .. hi of a state, least significant first
RECURSIVE words_value(_, _, _)
words_value(state, lo, hi) ==
    IF lo > hi THEN 0 ELSE state[lo] + (StreamWord * words_value(state, lo + 1, hi))

\* the buffered block is exhausted: every kind of call generates a block
\* first and returns none of the buffered bytes
BlockExhausted(g) ==
    /\ ChaCha_next_u32(g).gens = {g.state}
    /\ ChaCha_next_u32(g).out = <<BlockWord(g.state, 0)>>
    /\ ChaCha_next_u64(g).gens = {g.state}
    /\ ChaCha_next_u64(g).out = <<BlockWord(g.state, 0), BlockWord(g.state, 1)>>
    /\ ChaCha_fill_bytes(g, 3).gens = {g.state}
    /\ ChaCha_fill_bytes(g, 3).out = random_bytes(g.state, 0, 3)

\* C11: a jump adds exactly 1 modulo 2^64 to the stream (words 14..15),
\* leaves the constants, the key and the counter words 12..13 as they
\* were, whatever had been consumed, and leaves the buffered block
\* exhausted.
C11_JumpIncrementsStream ==
    jumped.some =>
        /\ words_value(jumped.post.state, 15, 16)
             = (words_value(jumped.pre.state, 15, 16) + 1) % (StreamWord * StreamWord)
        /\ \A k \in 1 .. 14 : jumped.post.state[k] = jumped.pre.state[k]
        /\ BlockExhausted(jumped.post)

\* a jump of a generator with part of its block consumed and a stream that
\* carries into its high word
C11_Witness ==
    /\ jumped.some
    /\ jumped.pre.index \in 1 .. NWORDS - 1
    /\ jumped.pre.state[15] = StreamWord - 1
    /\ jumped.post.state[16] # jumped.pre.state[16]

\* C12: after a split, no block of the clone and no block of the jumped
\* instance is generated from the same cipher input.
C12_SplitStreamsDisjoint == isSplit => usedA \cap usedB = {}


----------------------------------------------------------------------------
(* Xoshiro256::from_seed followed by next_u32 and next_u64 calls.          *)

InitXoshiro ==
    /\ IdleBlock
    /\ IdleUniform
    /\ IdleFloat
    /\ IdleChaCha
    /\ IdleStream
    /\ IdleDistr
    /\ IdleChaCha20
    /\ IdleSingle
    /\ IdleCursor
    /\ IdleLazy
    /\ IdleWidth
    /\ IdleReject
    /\ IdleSplitMix
    /\ IdleZiggurat
    /\ xseed \in XoshiroSeeds
    /\ xs = Xoshiro256_from_seed(xseed)
    /\ xout = <<>>
    /\ xkind = "none"
    /\ xn = 0

XoshiroNextU32 ==
    /\ xn < MaxXoshiroCalls
    /\ xs' = Xoshiro256_next_u32(xs).state
    /\ xout' = Xoshiro256_next_u32(xs).value
    /\ xkind' = "next_u32"
    /\ xn' = xn + 1
    /\ UNCHANGED xseed
    /\ UNCHANGED notXoshiro

XoshiroNextU64 ==
    /\ xn < MaxXoshiroCalls
    /\ xs' = Xoshiro256_next_u64(xs).state
    /\ xout' = Xoshiro256_next_u64(xs).value
    /\ xkind' = "next_u64"
    /\ xn' = xn + 1
    /\ UNCHANGED xseed
    /\ UNCHANGED notXoshiro

NextXoshiro == XoshiroNextU32 \/ XoshiroNextU64

SpecXoshiro == InitXoshiro /\ [][NextXoshiro]_vars

\* 368317477 = 0x15F4_1425
DocumentedValue == <<5620, 5157>>

\* the state after from_seed: SplitMix64 outputs 1 .. 4 of the seed,
\* output k being mix64(seed + k * GOLDEN_GAMMA)
RECURSIVE gamma_times(_)
gamma_times(k) == IF k = 0 THEN U64Zero ELSE u64_add(gamma_times(k - 1), GOLDEN_GAMMA)

SplitMixOutputs(sd) ==
    <<mix64(u64_add(sd, gamma_times(1))), mix64(u64_add(sd, gamma_times(2))),
      mix64(u64_add(sd, gamma_times(3))), mix64(u64_add(sd, gamma_times(4)))>>

\* C13: the first next_u32 after from_seed(42) returns 368317477; for
\* every seed the state after from_seed is the first four SplitMix64
\* outputs and the first next_u32 is the high 32 bits of s[0] + s[3]
\* modulo 2^64.
C13_FromSeed42 ==
    /\ xn = 0 => xs = SplitMixOutputs(xseed)
    /\ (xn = 1 /\ xkind = "next_u32") =>
          /\ xout = High32(u64_add(SplitMixOutputs(xseed)[1], SplitMixOutputs(xseed)[4]))
          /\ xseed = Seed42 => xout = DocumentedValue

\* the first next_u32 after from_seed(42)
C13_Witness == xseed = Seed42 /\ xn = 1 /\ xkind = "next_u32" /\ xout = DocumentedValue

----------------------------------------------------------------------------
(* One call of a constructor of Exp or Normal.                             *)

InitDistr ==
    /\ IdleBlock
    /\ IdleUniform
    /\ IdleFloat
    /\ IdleChaCha
    /\ IdleStream
    /\ IdleXoshiro
    /\ IdleDistr
    /\ IdleChaCha20
    /\ IdleSingle
    /\ IdleCursor
    /\ IdleLazy
    /\ IdleWidth
    /\ IdleReject
    /\ IdleSplitMix
    /\ IdleZiggurat

\* the call `call` with dispersion d and mean m returned r
Constructed(call, d, m, r) ==
    /\ dcall = "none"
    /\ dcall' = call
    /\ dparam' = d
    /\ dmean' = m
    /\ dres' = r
    /\ UNCHANGED notDistr

ExpTryNew == \E d \in Dispersions : Constructed("Exp::try_new", d, F64Zero, Exp_try_new(d))

ExpNew == \E d \in Dispersions : Constructed("Exp::new", d, F64Zero, Exp_new(d))

NormalTryNew ==
    \E d \in Dispersions, m \in Means :
        Constructed("Normal::try_new", d, m, Normal_try_new(m, d))

NormalNew ==
    \E d \in Dispersions, m \in Means :
        Constructed("Normal::new", d, m, Normal_new(m, d))

NextDistr == ExpTryNew \/ ExpNew \/ NormalTryNew \/ NormalNew

SpecDistr == InitDistr /\ [][NextDistr]_vars

\* x < 0.0
Negative(x) == ~IsNaN(x) /\ x.sign = 1 /\ ~IsZero(x)

Infinite(x) == ~is_finite(x) /\ IsZeroMant(x.mant)

Failed == dres.kind \in {"Err", "panic"}

ExpCall == dcall \in {"Exp::try_new", "Exp::new"}

NormalCall == dcall \in {"Normal::try_new", "Normal::new"}

----------------------------------------------------------------------------
(* A ChaCha20 instance under next_u32, next_u64, fill_u32, fill_bytes and  *)
(* jump.  A panic ends the run.                                            *)

InitChaCha20 ==
    /\ IdleBlock
    /\ IdleUniform
    /\ IdleFloat
    /\ IdleChaCha
    /\ IdleStream
    /\ IdleXoshiro
    /\ IdleDistr
    /\ IdleChaCha20
    /\ IdleSingle
    /\ IdleCursor
    /\ IdleLazy
    /\ IdleWidth
    /\ IdleReject
    /\ IdleSplitMix
    /\ IdleZiggurat

\* the call op on a buffer of len elements returned r
ChaCha20Call(op, len, r) ==
    /\ c20n < MaxChaCha20Calls
    /\ ~c20panic
    /\ c20' = r.rng
    /\ c20out' = r.out
    /\ c20panic' = r.panicked
    /\ c20call' = [op |-> op, len |-> len]
    /\ c20n' = c20n + 1
    /\ UNCHANGED notChaCha20

ChaCha20NextU32 == ChaCha20Call("next_u32", 1, ChaCha20_next_u32(c20))

ChaCha20NextU64 == ChaCha20Call("next_u64", 2, ChaCha20_next_u64(c20))

ChaCha20FillU32 == \E n \in FillU32Lens : ChaCha20Call("fill_u32", n, ChaCha20_fill_u32(c20, n))

ChaCha20FillBytes ==
    \E n \in FillBytesLens : ChaCha20Call("fill_bytes", n, ChaCha20_fill_bytes(c20, n))

ChaCha20Jump ==
    ChaCha20Call("jump", 0, [rng |-> ChaCha20_jump(c20), out |-> <<>>, panicked |-> FALSE])

NextChaCha20 ==
    \/ ChaCha20NextU32
    \/ ChaCha20NextU64
    \/ ChaCha20FillU32
    \/ ChaCha20FillBytes
    \/ ChaCha20Jump

SpecChaCha20 == InitChaCha20 /\ [][NextChaCha20]_vars

\* every element of the buffer was written
AllWritten == \A k \in 1 .. Len(c20out) : c20out[k] # Unwritten

\* C15: fill_bytes completes without a fatal failure from every reachable
\* state and for every length, and writes every byte of the buffer.
C15_FillBytesCompletes ==
    c20call.op = "fill_bytes" =>
        /\ ~c20panic
        /\ Len(c20out) = c20call.len
        /\ AllWritten

\* C16: fill_u32 returns for every buffer length and state, having written
\* every element of the buffer.
C16_FillU32Completes ==
    c20call.op = "fill_u32" =>
        /\ ~c20panic
        /\ Len(c20out) = c20call.len
        /\ AllWritten

----------------------------------------------------------------------------
(* Random::single on a collection of sitems items whose size_hint is exact *)
(* (upper == Some(len)) or not.  The loop of index() and the reservoir     *)
(* loop take one step for each value drawn from the generator.             *)

InitSingle ==
    /\ IdleBlock
    /\ IdleUniform
    /\ IdleFloat
    /\ IdleChaCha
    /\ IdleStream
    /\ IdleXoshiro
    /\ IdleDistr
    /\ IdleChaCha20
    /\ IdleCursor
    /\ IdleLazy
    /\ IdleWidth
    /\ IdleReject
    /\ IdleSplitMix
    /\ IdleZiggurat
    /\ stg \in UsizeTargets
    /\ sitems \in 0 .. MaxItems
    /\ shint \in {"exact", "inexact"}
    /\ spc = "start"
    /\ szone = 0
    /\ sraw = 0
    /\ sindex = 0
    /\ spos = 0
    /\ sresult = None
    /\ sdraws = 0

\* `if upper == Some(len)`: into index(len), its zone starting at the range
SingleExact ==
    /\ spc = "start"
    /\ shint = "exact"
    /\ szone' = RangeOf(stg, UniformInt_constant(0, sitems))
    /\ spc' = "index"
    /\ UNCHANGED <<stg, sitems, shint, sraw, sindex, spos, sresult, sdraws>>
    /\ UNCHANGED notSingle

\* one pass of the loop of index(len); on a break, `iter.nth(index)`
SingleIndexDraw ==
    /\ spc = "index"
    /\ sdraws < MaxDraws
    /\ \E v \in RawWords(stg) :
           LET r == sample_iter(stg, UniformInt_constant(0, sitems), szone, v)
           IN  /\ sraw' = v
               /\ szone' = r.zone
               /\ spc' = IF r.done THEN "done" ELSE "index"
               /\ sindex' = IF r.done THEN Min(sitems, AsUnsigned(stg, r.result)) ELSE sindex
               /\ sresult' = IF r.done
                             THEN single_exact(sitems, sitems, AsUnsigned(stg, r.result))
                             ELSE sresult
    /\ sdraws' = sdraws + 1
    /\ UNCHANGED <<stg, sitems, shint, spos>>
    /\ UNCHANGED notSingle

\* the reservoir path is entered; an empty iterator ends for_each at once
SingleReservoir ==
    /\ spc = "start"
    /\ shint = "inexact"
    /\ spc' = IF sitems = 0 THEN "done" ELSE "reservoir"
    /\ UNCHANGED <<stg, sitems, shint, szone, sraw, sindex, spos, sresult, sdraws>>
    /\ UNCHANGED notSingle

\* the closure of for_each on the next item
SingleReservoirItem ==
    /\ spc = "reservoir"
    /\ \E w \in CoinWords, sd \in Seeds64 :
           sresult' = single_reservoir(sresult, spos, w, sd)
    /\ spos' = spos + 1
    /\ spc' = IF spos + 1 = sitems THEN "done" ELSE "reservoir"
    /\ UNCHANGED <<stg, sitems, shint, szone, sraw, sindex, sdraws>>
    /\ UNCHANGED notSingle

NextSingle == SingleExact \/ SingleIndexDraw \/ SingleReservoir \/ SingleReservoirItem

SpecSingle == InitSingle /\ [][NextSingle]_vars

\* C17: single returns None exactly when the collection is empty; on the
\* exact-size path the index passed to nth is below len when len >= 1, and
\* is 0 when len = 0 whatever index(0) drew; on the reservoir path a result
\* is held from the first item on, and what is returned is an item of the
\* collection.
C17_SingleNoneIffEmpty ==
    /\ spc = "done" => (sresult.some <=> sitems > 0)
    /\ (spc = "done" /\ shint = "exact" /\ sitems >= 1) => sindex < sitems
    /\ (spc = "done" /\ shint = "exact" /\ sitems = 0) => sindex = 0
    /\ (shint = "inexact" /\ spos >= 1) => sresult.some
    /\ sresult.some => sresult.item < sitems

\* the last item chosen on the exact-size path after a word was rejected
C17_Witness ==
    /\ spc = "done"
    /\ shint = "exact"
    /\ sdraws >= 2
    /\ sitems >= 2
    /\ sresult = Some(sitems - 1)

----------------------------------------------------------------------------
(* The loop of UniformInt::sample with no bound on its passes, under a     *)
(* generator that does not withhold an accepted word for ever.  The words  *)
(* drawn are counted up to MaxDraws.  The intervals start at the least     *)
(* value of the type, which gives every range.                             *)

\* try_new or try_new_inclusive on [MIN, hi) or [MIN, hi]
ConstructFromMin ==
    \E hi \in TyValues(ty), incl \in BOOLEAN :
        Construct(incl, TyMin(ty), hi,
                  IF incl THEN try_new_inclusive(ty, TyMin(ty), hi)
                  ELSE try_new(ty, TyMin(ty), hi))

\* one pass of the loop
SampleLoop ==
    /\ upc = "loop"
    /\ \E v \in RawWords(ty) :
           LET r == sample_iter(ty, distr, zone, v)
           IN  /\ raw' = v
               /\ zone' = r.zone
               /\ sampled' = IF r.done THEN [some |-> TRUE, v |-> r.result]
                             ELSE NoSample
               /\ upc' = IF r.done THEN "done" ELSE "loop"
    /\ draws' = Min(draws + 1, MaxDraws)
    /\ UNCHANGED <<ty, low, high, inclusive, distr>>
    /\ UNCHANGED notUniform

\* a pass on which the generator yields an accepted word
AcceptingDraw == SampleLoop /\ upc' = "done"

NextUniformFair == ConstructFromMin \/ SampleBegin \/ SampleLoop

SpecUniformFair == InitUniform /\ [][NextUniformFair]_vars /\ WF_vars(AcceptingDraw)

\* C18: in the loop fewer than half of the raw words are rejected, whatever
\* the range; a pass stays in the loop only on a rejected word and returns
\* on an accepted one with a value; and the loop is always left.
C18_SampleTerminates ==
    /\ [](upc = "loop" => 2 * Cardinality(Rejected) < 2 ^ ty.large)
    /\ [][upc = "loop" => /\ (upc' = "loop" <=> raw' \in Rejected)
                          /\ (upc' = "done" <=> sampled'.some)]_vars
    /\ (upc = "loop") ~> (upc = "done")

\* a sample returned after two words were rejected
C18_Witness == upc = "done" /\ draws = MaxDraws /\ sampled.some /\ zone # 0

----------------------------------------------------------------------------
(* The calls on one BlockRngImpl: runs of next_u32 alone or next_u64       *)
(* alone, long enough to pass the end of a block, and short runs of any    *)
(* calls.  A jump may come at any point of a run.                          *)

InitCursor ==
    /\ IdleBlock
    /\ IdleUniform
    /\ IdleFloat
    /\ IdleChaCha
    /\ IdleStream
    /\ IdleXoshiro
    /\ IdleDistr
    /\ IdleChaCha20
    /\ IdleSingle
    /\ IdleLazy
    /\ IdleWidth
    /\ IdleReject
    /\ IdleSplitMix
    /\ IdleZiggurat
    /\ cbe \in BOOLEAN
    /\ crng = new([stream |-> 0, counter |-> 0])
    /\ cmode \in {"next_u32", "next_u64", "any"}
    /\ cn = 0
    /\ clast = NoCursorCall
    /\ cwords = 0
    /\ cstart = [stream |-> 0, counter |-> 0]
    /\ cseen = {}

\* calls allowed in the run
CursorBudget == IF cmode = "any" THEN MaxCursorCalls ELSE MaxWordCalls

\* the call op returned r, having read the offsets reads of the block
CursorCall(op, r, v, reads) ==
    /\ cn < CursorBudget
    /\ cmode \in {op, "any"}
    /\ crng' = r
    /\ clast' = [op |-> op, value |-> v, gen |-> r.state # crng.state,
                 pre |-> crng.index, reads |-> reads]
    /\ cn' = cn + 1
    /\ cwords' = cwords + 1
    /\ cseen' = cseen \cup {clast.value[k] : k \in 1 .. Len(clast.value)}
    /\ UNCHANGED <<cbe, cmode, cstart>>
    /\ UNCHANGED notCursor

CursorNextU32 ==
    CursorCall("next_u32", next_u32(cbe, crng).rng, next_u32(cbe, crng).value,
               next_reads(crng, 4))

CursorNextU64 ==
    CursorCall("next_u64", next_u64(cbe, crng).rng, next_u64(cbe, crng).value,
               next_reads(crng, 8))

CursorFillBytes ==
    \E n \in CursorLens :
        CursorCall("fill_bytes", fill_bytes(cbe, crng, [k \in 1 .. n |-> 0], n).rng,
                   fill_bytes(cbe, crng, [k \in 1 .. n |-> 0], n).dst,
                   fill_bytes_reads(crng, n))

\* jump, once in a run of one kind of call
CursorJump ==
    /\ cn < CursorBudget
    /\ cmode = "any" \/ crng.state.stream = 0
    /\ crng' = jump(crng)
    /\ clast' = [NoCursorCall EXCEPT !.op = "jump", !.pre = crng.index]
    /\ cn' = cn + 1
    /\ cwords' = 0
    /\ cstart' = crng'.state
    /\ cseen' = cseen \cup {clast.value[k] : k \in 1 .. Len(clast.value)}
    /\ UNCHANGED <<cbe, cmode>>
    /\ UNCHANGED notCursor

NextCursor == CursorNextU32 \/ CursorNextU64 \/ CursorFillBytes \/ CursorJump

SpecCursor == InitCursor /\ [][NextCursor]_vars

\* the bytes w * k .. w * k + w - 1 of the blocks generated from the state
\* `start` on, laid end to end as they are in memory
StreamWordAt(start, w, k) ==
    [j \in 1 .. w |->
        bytes(cbe, BlockId([start EXCEPT !.counter = @ + ((w * k) \div BlockBytes)]))
            [((w * k) % BlockBytes) + j - 1]]

\* the word size of the run
WordSize == IF cmode = "next_u32" THEN 4 ELSE 8

\* C19: in a run of next_u32 alone (of next_u64 alone) since construction
\* or a jump, a call invokes generate exactly when fewer than 4 (8) bytes
\* of the block are unconsumed, and then reads from offset 0; the values
\* returned are the consecutive 4-byte (8-byte) words of the generated
\* blocks laid end to end, none skipped and none returned twice.
C19_ConsecutiveWords ==
    (cmode # "any" /\ clast.op = cmode) =>
        /\ clast.gen <=> BlockBytes - U32MinUsize(clast.pre, BlockBytes) < WordSize
        /\ clast.gen => clast.reads = 0 .. WordSize - 1
        /\ clast.reads = LET off == (WordSize * (cwords - 1)) % BlockBytes
                         IN  off .. off + WordSize - 1
        /\ crng.index = U32(((WordSize * (cwords - 1)) % BlockBytes) + WordSize)
        /\ clast.value = StreamWordAt(cstart, WordSize, cwords - 1)

\* the first next_u32 of the second block of a run that began with a jump
C19_Witness ==
    /\ cmode = "next_u32"
    /\ clast.op = "next_u32"
    /\ cstart.stream = 1
    /\ cwords = (BlockBytes \div 4) + 1
    /\ clast.gen

\* C20: the cursor is at most the block size or is the sentinel of new and
\* jump, and every read of the block is at an offset below its end.
C20_CursorInBounds ==
    /\ \/ crng.index = NOT0
       \/ crng.index[1] = 0 /\ crng.index[2] <= BlockBytes
    /\ clast.reads \subseteq 0 .. BlockBytes - 1

\* next_u64 refilling with 7 bytes unconsumed, after fill_bytes and next_u32
C20_Witness ==
    /\ cmode = "any"
    /\ clast.op = "next_u64"
    /\ clast.pre = U32(BlockBytes - 7)
    /\ clast.gen
    /\ crng.index = U32(8)

\* the buffered bytes not yet consumed before a call
Unconsumed(rng) == BlockBytes - U32MinUsize(rng.index, BlockBytes)

\* the state after j more calls of generate
Generated(state, j) == [state EXCEPT !.counter = @ + j]

\* C21: fill_bytes writes floor(n / 256) freshly generated blocks straight
\* to the destination, one generate each; when n is a multiple of the block
\* size the buffered block and the cursor stay as they were; otherwise the
\* last n mod 256 bytes come from the buffered block at the cursor, which
\* advances, with one refill when the buffered block runs out.
C21_FillBytesDirect ==
    [][(clast'.op = "fill_bytes" /\ cn' = cn + 1) =>
        LET dst   == clast'.value
            n     == Len(dst)
            full  == n \div BlockBytes
            rest  == n % BlockBytes
            avail == Unconsumed(crng)
            start == U32MinUsize(crng.index, BlockBytes)
            after == Generated(crng.state, full)
        IN  /\ \A j \in 0 .. full - 1 : \A k \in 0 .. BlockBytes - 1 :
                   dst[(j * BlockBytes) + k + 1]
                       = bytes(cbe, BlockId(Generated(crng.state, j)))[k]
            /\ rest = 0 =>
                   /\ crng'.state = after
                   /\ crng'.random = crng.random
                   /\ crng'.index = crng.index
            /\ (rest > 0 /\ rest <= avail) =>
                   /\ crng'.state = after
                   /\ crng'.random = crng.random
                   /\ crng'.index = U32(start + rest)
                   /\ \A k \in 0 .. rest - 1 :
                          dst[(full * BlockBytes) + k + 1]
                              = bytes(cbe, crng.random)[start + k]
            /\ rest > avail =>
                   /\ crng'.state = Generated(after, 1)
                   /\ crng'.random = BlockId(after)
                   /\ crng'.index = U32(rest - avail)
                   /\ \A k \in 0 .. avail - 1 :
                          dst[(full * BlockBytes) + k + 1]
                              = bytes(cbe, crng.random)[start + k]
                   /\ \A k \in avail .. rest - 1 :
                          dst[(full * BlockBytes) + k + 1]
                              = bytes(cbe, BlockId(after))[k - avail]]_vars

\* two full blocks written while the buffered block was partly consumed
C21_Witness ==
    /\ clast.op = "fill_bytes"
    /\ Len(clast.value) = 2 * BlockBytes
    /\ clast.gen
    /\ clast.pre = U32(4)
    /\ crng.index = U32(4)
    /\ crng.random = BlockId(cstart)

\* the bytes the last call handed to the caller
Returned == {clast.value[k] : k \in 1 .. Len(clast.value)}

\* the blocks generated since construction or the last jump
BlocksSinceStart ==
    {BlockId(Generated(cstart, j)) :
        j \in 0 .. (crng.state.counter - cstart.counter) - 1}

\* C22: every byte a call hands out is a byte of a block generated since
\* the construction or the last jump, was not handed out before, and is
\* handed out once by the call; no byte of the default block is handed out.
C22_FreshBytesOnly ==
    clast.op \in {"next_u32", "next_u64", "fill_bytes"} =>
        /\ Cardinality(Returned) = Len(clast.value)
        /\ Returned \cap cseen = {}
        /\ \A b \in Returned :
               /\ b # LeByte(0, 0)
               /\ b \div BlockBytes \in BlocksSinceStart

\* a word read right after a jump that came with the block partly consumed
C22_Witness ==
    /\ cmode = "any"
    /\ clast.op = "next_u32"
    /\ clast.pre = NOT0
    /\ cstart.stream = 1
    /\ cwords = 1
    /\ cseen # {}

----------------------------------------------------------------------------
(* Several sample calls on one UniformInt, counting the divisions: udivs   *)
(* in the current call, utotal over all calls on the descriptor.           *)

\* entry of sample: `let mut zone = range;`
LazyBegin ==
    /\ upc \in {"ready", "done"}
    /\ ucalls < MaxSampleCalls
    /\ zone' = RangeOf(ty, distr)
    /\ raw' = 0
    /\ sampled' = NoSample
    /\ draws' = 0
    /\ upc' = "loop"
    /\ ucalls' = ucalls + 1
    /\ udivs' = 0
    /\ ulast' = NoPass
    /\ UNCHANGED <<ty, low, high, inclusive, distr, utotal>>
    /\ UNCHANGED notUniformLazy

\* one pass of the loop
LazyDraw ==
    /\ upc = "loop"
    /\ draws < MaxDraws
    /\ \E v \in RawWords(ty) :
           LET r == sample_iter(ty, distr, zone, v)
               d == sample_divides(ty, distr, zone, v)
           IN  /\ raw' = v
               /\ zone' = r.zone
               /\ sampled' = IF r.done THEN [some |-> TRUE, v |-> r.result]
                             ELSE NoSample
               /\ upc' = IF r.done THEN "done" ELSE "loop"
               /\ udivs' = IF d THEN udivs + 1 ELSE udivs
               /\ utotal' = IF d THEN utotal + 1 ELSE utotal
               /\ ulast' = [div |-> d, lsw |-> wmul(ty, v, RangeOf(ty, distr)).lsw]
    /\ draws' = draws + 1
    /\ UNCHANGED <<ty, low, high, inclusive, distr, ucalls>>
    /\ UNCHANGED notUniformLazy

NextUniformLazy == ConstructFromMin \/ LazyBegin \/ LazyDraw

SpecUniformLazy == InitUniform /\ [][NextUniformLazy]_vars

\* C23 as stated: the division is executed at most once on a UniformInt,
\* whatever the number of sample calls.
C23_ThresholdOncePerDescriptor == utotal <= 1

\* C23: the division is executed only on a pass whose low product half is
\* below range, and at most once in a sample call: before it zone = range,
\* after it zone = 2^W mod range for the rest of the call.  Every sample
\* call starts again from zone = range.
C23_ThresholdOncePerCall ==
    /\ udivs <= 1
    /\ ulast.div => ulast.lsw < RangeOf(ty, distr)
    /\ (upc \in {"loop", "done"} /\ udivs = 0) => zone = RangeOf(ty, distr)
    /\ udivs = 1 => zone = (2 ^ ty.large) % RangeOf(ty, distr)
    /\ (upc = "loop" /\ draws = 0) => (udivs = 0 /\ zone = RangeOf(ty, distr))

\* the second sample call on a UniformInt executing the division again
C23_Witness ==
    /\ ucalls = 2
    /\ utotal = 2
    /\ udivs = 1
    /\ ulast.div
    /\ upc = "done"

\* C24: with the stored range 0, sample returns on its first pass with the
\* raw word truncated to the type, and executes no division.
C24_FullRangeVerbatim ==
    (RangeOf(ty, distr) = 0 /\ distr.ok) =>
        /\ upc = "loop" => draws = 0
        /\ upc = "done" => /\ draws = 1
                           /\ sampled.some
                           /\ sampled.v = AsTy(ty, raw)
        /\ udivs = 0
        /\ utotal = 0

\* a raw word with high bits set returned by the full range of a narrow
\* signed type
C24_Witness ==
    /\ upc = "done"
    /\ distr.ok
    /\ RangeOf(ty, distr) = 0
    /\ ty.signed
    /\ ty.bits < ty.large
    /\ raw >= 2 ^ ty.bits
    /\ sampled.v < 0

----------------------------------------------------------------------------
(* One sample call of UniformInt<$ty> for every instantiation: each pass   *)
(* of the loop draws one word with $method and, unless range is 0,         *)
(* multiplies it by the range.                                             *)

InitWidth ==
    /\ IdleBlock
    /\ IdleUniform
    /\ IdleFloat
    /\ IdleChaCha
    /\ IdleStream
    /\ IdleXoshiro
    /\ IdleDistr
    /\ IdleChaCha20
    /\ IdleSingle
    /\ IdleCursor
    /\ IdleLazy
    /\ IdleReject
    /\ IdleSplitMix
    /\ IdleZiggurat
    /\ wfile \in {"distr", "distributions"}
    /\ wptr \in PointerWidths
    /\ wimpl \in IF wfile = "distr" THEN impl_uniform_int_distr(wptr)
                 ELSE impl_uniform_int_distributions(wptr)
    /\ wpc = "new"
    /\ wpasses = 0
    /\ wbits = 0
    /\ wfull = 0

\* entry of sample
WidthBegin ==
    /\ wpc = "new"
    /\ wpc' = "loop"
    /\ UNCHANGED <<wfile, wptr, wimpl, wpasses, wbits, wfull>>
    /\ UNCHANGED notWidth

\* a pass with range == 0: `let value = rand.$method(); break value as $ty`
WidthPassFull ==
    /\ wpc = "loop"
    /\ wpasses = 0
    /\ wpasses' = wpasses + 1
    /\ wbits' = wbits + MethodBits(wimpl.method)
    /\ wpc' = "done"
    /\ UNCHANGED <<wfile, wptr, wimpl, wfull>>
    /\ UNCHANGED notWidth

\* a pass with range # 0: the word is drawn and multiplied by the range,
\* and is accepted or rejected
WidthPass ==
    /\ wpc = "loop"
    /\ wpasses < MaxDraws
    /\ wpasses' = wpasses + 1
    /\ wbits' = wbits + MethodBits(wimpl.method)
    /\ wfull' = wimpl.wmul.full
    /\ wpc' \in {"loop", "done"}
    /\ UNCHANGED <<wfile, wptr, wimpl>>
    /\ UNCHANGED notWidth

NextWidth == WidthBegin \/ WidthPassFull \/ WidthPass

SpecWidth == InitWidth /\ [][NextWidth]_vars

\* the width of the type: isize and usize have the pointer width
TypeBits == wimpl.unsigned

\* the types routed through the 64-bit path whatever their width
PointerSized == wimpl.ty \in {"isize", "usize"}

\* C25: i8, u8, i16, u16, i32 and u32 draw one 32-bit word per pass and
\* multiply to 64 bits; i64, u64, isize and usize draw one 64-bit word per
\* pass and multiply to 128 bits.
C25_NarrowTypesDraw32 ==
    wpasses > 0 =>
        IF TypeBits <= 32 /\ ~PointerSized
        THEN /\ wbits = 32 * wpasses
             /\ wfull \in {0, 64}
        ELSE /\ wbits = 64 * wpasses
             /\ wfull \in {0, 128}

----------------------------------------------------------------------------
(* The threshold functions and the dice constructors applied to every      *)
(* range up to MaxRejectRange.                                             *)

InitReject ==
    /\ IdleBlock
    /\ IdleUniform
    /\ IdleFloat
    /\ IdleChaCha
    /\ IdleStream
    /\ IdleXoshiro
    /\ IdleDistr
    /\ IdleChaCha20
    /\ IdleSingle
    /\ IdleCursor
    /\ IdleLazy
    /\ IdleWidth
    /\ IdleSplitMix
    /\ IdleZiggurat
    /\ rquery \in [fn : {"ints_to_reject32", "ints_to_reject64", "Dice::new"},
                   arg : 1 .. MaxRejectRange]
               \cup [fn : {"ints_to_reject32", "ints_to_reject64"}, arg : {0}]
               \cup [fn : {"Dice::D"}, arg : DOMAIN DiceConstants]
    /\ rres = 0
    /\ rdone = FALSE

Answer(fn, v) ==
    /\ ~rdone
    /\ rquery.fn = fn
    /\ rres' = v
    /\ rdone' = TRUE
    /\ UNCHANGED rquery
    /\ UNCHANGED notReject

Reject32 == Answer("ints_to_reject32", ints_to_reject32(rquery.arg))

Reject64 == Answer("ints_to_reject64", ints_to_reject64(rquery.arg))

DiceNew == Answer("Dice::new", Dice_new(rquery.arg))

DiceConst == Answer("Dice::D", DiceConstants[rquery.arg])

NextReject == Reject32 \/ Reject64 \/ DiceNew \/ DiceConst

SpecReject == InitReject /\ [][NextReject]_vars

\* 2^(16 * n) mod range
Pow2Rem(n, range) == limbs_rem([k \in 1 .. n + 1 |-> IF k = 1 THEN 1 ELSE 0], 1, 0, range)

\* (0 - range) mod range on a word of n limbs
DivisionReject(n, range) == limbs_rem(wrapping_sub_from_zero(n, range), 1, 0, range)

\* C26: for every range r >= 1, ints_to_reject32(r) = (0 - r) mod r on 32
\* bits = 2^32 mod r and ints_to_reject64(r) = (0 - r) mod r on 64 bits =
\* 2^64 mod r; Dice::new(n) has base 1, range n and the threshold of n, and
\* each dice constant equals Dice::new of its number of sides.
C26_RejectTables ==
    rdone =>
        /\ rquery.fn = "ints_to_reject32" /\ rquery.arg >= 1 =>
               /\ rres = DivisionReject(2, rquery.arg)
               /\ rres = Pow2Rem(2, rquery.arg)
        /\ rquery.fn = "ints_to_reject64" /\ rquery.arg >= 1 =>
               /\ rres = DivisionReject(4, rquery.arg)
               /\ rres = Pow2Rem(4, rquery.arg)
        /\ rquery.fn = "Dice::new" =>
               rres = UniformInt_u8_constant(1, rquery.arg, Pow2Rem(2, rquery.arg))
        /\ rquery.fn = "Dice::D" => rres = Dice_new(rquery.arg)

\* the last entry of the 32-bit table that differs from the 64-bit one
C26_Witness ==
    /\ rdone
    /\ rquery = [fn |-> "ints_to_reject32", arg |-> 61]
    /\ rres = 57
    /\ REJECT64[61] # 57

----------------------------------------------------------------------------
(* Calls of next_u32, next_u64 and jump on a SplitMix64 in any order.      *)

InitSplitMix ==
    /\ IdleBlock
    /\ IdleUniform
    /\ IdleFloat
    /\ IdleChaCha
    /\ IdleStream
    /\ IdleXoshiro
    /\ IdleDistr
    /\ IdleChaCha20
    /\ IdleSingle
    /\ IdleCursor
    /\ IdleLazy
    /\ IdleWidth
    /\ IdleReject
    /\ IdleZiggurat
    /\ mseed \in XoshiroSeeds
    /\ mstate = SplitMix64_from_seed(mseed)
    /\ mnexts = 0
    /\ mjumps = 0
    /\ mlast = "none"

SplitMixNextU32 ==
    /\ mnexts < MaxSplitMixCalls
    /\ mstate' = SplitMix64_next_u32(mstate).state
    /\ mnexts' = mnexts + 1
    /\ mlast' = "next_u32"
    /\ UNCHANGED <<mseed, mjumps>>
    /\ UNCHANGED notSplitMix

SplitMixNextU64 ==
    /\ mnexts < MaxSplitMixCalls
    /\ mstate' = SplitMix64_next_u64(mstate).state
    /\ mnexts' = mnexts + 1
    /\ mlast' = "next_u64"
    /\ UNCHANGED <<mseed, mjumps>>
    /\ UNCHANGED notSplitMix

SplitMixJump ==
    /\ mjumps < MaxSplitMixJumps
    /\ mstate' = splitmix_jump(mstate)
    /\ mjumps' = mjumps + 1
    /\ mlast' = "jump"
    /\ UNCHANGED <<mseed, mnexts>>
    /\ UNCHANGED notSplitMix

NextSplitMix == SplitMixNextU32 \/ SplitMixNextU64 \/ SplitMixJump

SpecSplitMix == InitSplitMix /\ [][NextSplitMix]_vars

\* x added to itself 2^j times over, by doubling
RECURSIVE Doubled(_, _)
Doubled(x, j) ==
    IF j = 0 THEN x ELSE Then(u64_add(x, x), LAMBDA y : Doubled(y, j - 1))

\* the state k calls of next after x, one wrapping_add each
RECURSIVE AfterNexts(_, _)
AfterNexts(x, k) ==
    IF k = 0 THEN x
    ELSE Then(splitmix_next(x).state, LAMBDA y : AfterNexts(y, k - 1))

\* what 2^40 calls of next add to the state: each call adds GOLDEN_GAMMA,
\* so 2 n calls add twice what n calls add
Stride == Doubled(GOLDEN_GAMMA, 40)

\* the state j jumps after x
RECURSIVE AfterJumps(_, _)
AfterJumps(x, j) ==
    IF j = 0 THEN x
    ELSE Then(u64_add(x, Stride), LAMBDA y : AfterJumps(y, j - 1))

\* C27: a jump adds GOLDEN_GAMMA * 2^40 mod 2^64, the sum of the 2^40
\* additions that 2^40 calls of next make, and so after any interleaving of
\* k calls of next and j jumps the state is the one reached by the jumps
\* first and the calls after them, and by the calls first and the jumps
\* after them.
C27_JumpIsManyNexts ==
    /\ Stride = u64_wrapping_mul(GOLDEN_GAMMA, <<0, 256, 0, 0>>)
    /\ \A j \in 0 .. 4 : AfterNexts(mstate, 2 ^ j) = u64_add(mstate, Doubled(GOLDEN_GAMMA, j))
    /\ mstate = AfterNexts(AfterJumps(mseed, mjumps), mnexts)
    /\ mstate = AfterJumps(AfterNexts(mseed, mnexts), mjumps)

\* a jump made after the calls of next
C27_Witness ==
    /\ mlast = "jump"
    /\ mjumps = 1
    /\ mnexts = MaxSplitMixCalls
    /\ mseed = U64Zero

----------------------------------------------------------------------------
(* Every method of a Xoshiro256 built by from_seed, in any order.  The     *)
(* seeds include those for which one of the four state words is 0.         *)

\* a.wrapping_neg()
u64_neg(a) ==
    u64_add(<<Limb - 1 - a[1], Limb - 1 - a[2], Limb - 1 - a[3], Limb - 1 - a[4]>>,
            <<0, 0, 0, 1>>)

\* the seeds whose k-th SplitMix64 output is mix64(0) = 0
ZeroWordSeeds == { u64_neg(gamma_times(k)) : k \in 1 .. 4 }

XoshiroFillLens == {3, 8, 13, 23}

InitXoshiroOps ==
    /\ IdleBlock
    /\ IdleUniform
    /\ IdleFloat
    /\ IdleChaCha
    /\ IdleStream
    /\ IdleDistr
    /\ IdleChaCha20
    /\ IdleSingle
    /\ IdleCursor
    /\ IdleLazy
    /\ IdleWidth
    /\ IdleReject
    /\ IdleSplitMix
    /\ IdleZiggurat
    /\ xseed \in XoshiroSeeds \cup ZeroWordSeeds
    /\ xs = Xoshiro256_from_seed(xseed)
    /\ xout = <<>>
    /\ xkind = "none"
    /\ xn = 0

XoshiroOp(op, r, out) ==
    /\ xn < MaxXoshiroOps
    /\ xs' = r
    /\ xout' = out
    /\ xkind' = op
    /\ xn' = xn + 1
    /\ UNCHANGED xseed
    /\ UNCHANGED notXoshiro

XoshiroOpNextU32 ==
    XoshiroOp("next_u32", Xoshiro256_next_u32(xs).state, Xoshiro256_next_u32(xs).value)

XoshiroOpNextU64 ==
    XoshiroOp("next_u64", Xoshiro256_next_u64(xs).state, Xoshiro256_next_u64(xs).value)

XoshiroOpNextF32 ==
    XoshiroOp("next_f32", Xoshiro256_next_f32(xs).state, Xoshiro256_next_f32(xs).value)

XoshiroOpNextF64 ==
    XoshiroOp("next_f64", Xoshiro256_next_f64(xs).state, Xoshiro256_next_f64(xs).value)

XoshiroOpFillBytes ==
    \E n \in XoshiroFillLens :
        XoshiroOp("fill_bytes", Xoshiro256_fill_bytes(xs, n).state,
                  Xoshiro256_fill_bytes(xs, n).out)

XoshiroOpJump == XoshiroOp("jump", xoshiro_jump(xs), <<>>)

NextXoshiroOps ==
    \/ XoshiroOpNextU32
    \/ XoshiroOpNextU64
    \/ XoshiroOpNextF32
    \/ XoshiroOpNextF64
    \/ XoshiroOpFillBytes
    \/ XoshiroOpJump

SpecXoshiroOps == InitXoshiroOps /\ [][NextXoshiroOps]_vars

\* C28: the state from_seed builds is four different SplitMix64 outputs,
\* so not all zero, and no call on the generator makes the state all zero.
C28_NeverAllZero ==
    /\ xs # ZeroState
    /\ xn = 0 => /\ xs = SplitMixOutputs(xseed)
                 /\ Cardinality({xs[1], xs[2], xs[3], xs[4]}) = 4

\* after a jump from the seed whose first state word is 0
C28_Witness ==
    /\ xseed = u64_neg(GOLDEN_GAMMA)
    /\ xkind = "jump"
    /\ xn = 1
    /\ xs # Xoshiro256_from_seed(xseed)

\* the state after j calls of next_u64
RECURSIVE AfterU64(_, _)
AfterU64(s, j) ==
    IF j = 0 THEN s
    ELSE Then(Xoshiro256_next_u64(s).state, LAMBDA y : AfterU64(y, j - 1))

\* byte k of the little-endian encoding of the words next_u64 returns from s
DrawnByte(s, k) ==
    u64_shr(Xoshiro256_next_u64(AfterU64(s, k \div 8)).value, 8 * (k % 8))[4] % 256

\* C30: fill_bytes of n bytes leaves the state that ceil(n / 8) calls of
\* next_u64 leave, and byte k of the output is byte k mod 8 of the
\* little-endian encoding of the word of call floor(k / 8).
C30_FillBytesIsNextU64 ==
    [][(xkind' = "fill_bytes" /\ xn' = xn + 1) =>
        /\ xs' = AfterU64(xs, (Len(xout') + 7) \div 8)
        /\ \A k \in 0 .. Len(xout') - 1 : xout'[k + 1] = DrawnByte(xs, k)]_vars

\* 13 bytes: one whole word, then the u32 and the u8 write of the tail
C30_Witness ==
    /\ xkind = "fill_bytes"
    /\ Len(xout) = 13
    /\ xn = 2
    /\ xseed = Seed42

----------------------------------------------------------------------------
(* One call of StandardNormal::sample or Exp1::sample, one step per draw   *)
(* and test of ziggurat.                                                   *)

\* words with both values of the top bit, of the four bits between the
\* index and the mantissa, and index bytes 0, 1 and 255
ZigWords ==
    { <<h, 0, m, l>> : h \in {0, Limb \div 2, Limb - 1}, m \in {0, 1},
                       l \in {0, 1, 255, 256, 3840, 4096, Limb - 1} }

InitZiggurat ==
    /\ IdleBlock
    /\ IdleUniform
    /\ IdleFloat
    /\ IdleChaCha
    /\ IdleStream
    /\ IdleXoshiro
    /\ IdleDistr
    /\ IdleChaCha20
    /\ IdleSingle
    /\ IdleCursor
    /\ IdleLazy
    /\ IdleWidth
    /\ IdleReject
    /\ IdleSplitMix
    /\ zsym \in BOOLEAN
    /\ zpc = "loop"
    /\ zbits = U64Zero
    /\ zi = 0
    /\ zmant = U64Zero
    /\ zlog = <<>>
    /\ zattempts = 0
    /\ ztail = 0
    /\ zret = "none"

\* ziggurat.rs:39-53: the top of the loop
ZigDraw ==
    /\ zpc = "loop"
    /\ zattempts < MaxZigAttempts
    /\ \E bits \in ZigWords :
        /\ zbits' = bits
        /\ zi' = layer_index(bits)
        /\ zmant' = into_float_mantissa(bits)
    /\ zlog' = <<"next_u64">>
    /\ zattempts' = zattempts + 1
    /\ zpc' = "test_x"
    /\ UNCHANGED <<zsym, ztail, zret>>
    /\ UNCHANGED notZiggurat

\* ziggurat.rs:55-63
ZigTestX ==
    /\ zpc = "test_x"
    /\ \E below \in BOOLEAN :
        /\ zlog' = Append(zlog, IF below THEN "below" ELSE "not_below")
        /\ zpc' = after_test_x(below, zi)
        /\ zret' = IF below THEN "x" ELSE zret
    /\ UNCHANGED <<zsym, zbits, zi, zmant, zattempts, ztail>>
    /\ UNCHANGED notZiggurat

\* zero_case: normal.rs:49-73, exp.rs:52-54
ZigZeroCase ==
    /\ zpc = "zero_case"
    /\ ztail < MaxTailLoops
    /\ \E cond \in BOOLEAN :
        /\ zpc' = IF zero_case_again(zsym, cond) THEN "zero_case" ELSE "return_tail"
        /\ zret' = IF zero_case_again(zsym, cond) THEN zret
                   ELSE IF zsym /\ u_negative(zbits) THEN "x - R"
                   ELSE IF zsym THEN "R - x"
                   ELSE "R - ln"
    /\ zlog' = zlog \o zero_case_draws(zsym)
    /\ ztail' = ztail + 1
    /\ UNCHANGED <<zsym, zbits, zi, zmant, zattempts>>
    /\ UNCHANGED notZiggurat

\* ziggurat.rs:65-68
ZigDensity ==
    /\ zpc = "density"
    /\ \E accept \in BOOLEAN :
        /\ zlog' = zlog \o <<"float01", IF accept THEN "accept" ELSE "reject">>
        /\ zpc' = after_density(accept)
        /\ zret' = IF accept THEN "x" ELSE zret
    /\ UNCHANGED <<zsym, zbits, zi, zmant, zattempts, ztail>>
    /\ UNCHANGED notZiggurat

NextZiggurat == ZigDraw \/ ZigTestX \/ ZigZeroCase \/ ZigDensity

SpecZiggurat == InitZiggurat /\ [][NextZiggurat]_vars

\* the entries of the log that are draws
Draws(log) == SelectSeq(log, LAMBDA e : e \in {"next_u64", "float01"})

====
